---- MODULE Spec2Model ----
(***************************************************************************)
(* Verification model of duckietown_challenges:                            *)
(*   - the evaluator / solution handshake of cie_concrete.py               *)
(*     (wrap_evaluator, wrap_solution, wait_for_file), two processes that  *)
(*     share only the files of the session directory;                      *)
(*   - the step-transition engine of challenge.py                          *)
(*     (ChallengeTransitions.__init__ and get_next_steps).                 *)
(* Dictionaries are functions from key strings to values; messages are     *)
(* sequences of text fragments, composed the way the code formats them.    *)
(***************************************************************************)
EXTENDS Integers, Sequences, FiniteSets, TLC

\* ------------------------------------------------------------------ bounds
\* number of one-second clock advances explored (the rest are Jump-sized)
MaxUnitTicks == 2
\* size of a coarse clock advance, in seconds
Jump == 3000
\* longest transition list handed to ChallengeTransitions.__init__
MaxTransitions == 3
\* artefacts of one download, files of one upload, calls of each
MaxArtefacts == 2
MaxFiles == 2
MaxDownloadCalls == 2
MaxUploadCalls == 2
\* calls of set_score made by one scoring logic
MaxScoreCalls == 3
\* calls of ServiceDefinition.equivalent
MaxEquivalentCalls == 2
\* threads calling d8n_mkdirs_thread_safe at the same time
MaxThreads == 2

\* ------------------------------------------------------- program constants
TIMEOUT_PREPARATION == 6000
TIMEOUT_SOLUTION == 6000
\* the wait=1 argument of both wait_for_file calls
PollWait == 1

SPECIAL_ABORT == "abort"
SPECIAL_INVALID_ENVIRONMENT == "invalid-environment"
SPECIAL_INVALID_EVALUATOR == "invalid-evaluator"
SPECIAL_INVALID_SUBMISSION == "invalid-submission"

\* the three classified failures of exceptions.py, and "Other" for any other
\* BaseException
ClassifiedFailures == {"InvalidSubmission", "InvalidEvaluator", "InvalidEnvironment"}
ExceptionClasses == ClassifiedFailures \cup {"Other"}

\* ------------------------------------------------------------ value helpers
\* Python None (a dictionary attribute that was never set)
None == [py_None |-> <<"None">>]
\* a path at which os.path.exists() is False
Absent == [py_absent |-> <<"absent">>]
EmptyDict == <<>>
Dict1(k, v) == [x \in {k} |-> v]
IsDict(d) == d # None /\ d # Absent

NoExc == [cls |-> "none", msg |-> <<>>, origin |-> "none"]
Exc(c, m, o) == [cls |-> c, msg |-> m, origin |-> o]

Min(a, b) == IF a < b THEN a ELSE b

\* ---------------------------------------------------- inputs of user logic
\* what evaluator.prepare may hand to set_challenge_parameters
PrepareParams == {Dict1("track", <<"data">>)}
ChallengeBasenames == {"map.yaml"}
\* what solution.run may hand to set_solution_output_dict
RunOutputs == {Dict1("result", <<"data">>), Dict1(SPECIAL_INVALID_SUBMISSION, <<"by user">>)}
SolutionBasenames == {"log.txt"}
\* what evaluator.score may leave in cie.scores
ScoreOutputs == {EmptyDict, Dict1("score1", 1)}
EvaluationBasenames == {"report.html"}

VARIABLES
    \* os.environ
    envName, envStep,
    \* wrap_evaluator: position, pending exception, cie fields
    epc, eexc, parameters, challenge_files, evaluation_files, scores,
    e_out, e_elapsed, e_sleep, e_pollSaw, e_phases, e_seenFiles, scoreInvoked,
    \* wrap_solution: position, pending exception, cis fields
    spc, sexc, s_parameters, solution_output_dict, solution_output_files,
    failure_declared, s_elapsed, s_sleep, s_pollSaw, runInvoked, run_outcome,
    \* the session directory
    descYaml, descFiles, solYaml, solFiles, evalFiles, results,
    \* clock bookkeeping
    unitTicks, wroteLate,
    \* ChallengeTransitions
    ct_state, ct_input, transitions, g_status, g_result,
    \* the local cache (runner_cache) and the S3 bucket
    cache, s3, puts,
    \* download_artefacts: position, arguments, working directory, exception
    d_pc, d_aws, d_todo, d_wd, d_exc, d_calls,
    \* upload_files: position, arguments, records, exception
    u_pc, u_aws, u_input, u_todo, uploaded, u_exc, u_calls,
    \* dt_challenges_evaluator: command line flags, the continuous loop
    continuous, do_pull, do_upload, delete, multiplier, m_before, cycle, slept,
    \* go_: position, the job and its locals, the report loop
    r_pc, job, wd, valid_config, cr, r_uploaded, backend, ntries, attempts, waited,
    \* the calls of cie.set_score made so far
    score_calls,
    \* the calls of ServiceDefinition.equivalent made so far
    eq_calls,
    \* the call of a from_yaml reader, once made
    parse_calls,
    \* the status map kept by the caller of get_next_steps
    o_status,
    \* the calls of get_config and of ServiceDefinition.update_image made so far
    config_calls, image_calls,
    \* the directories of the file system, and for each thread the frames of
    \* its d8n_mkdirs_thread_safe call and how the call ended
    fs, mk_stack, mk_done

evars == <<epc, eexc, parameters, challenge_files, evaluation_files, scores,
           e_out, e_elapsed, e_sleep, e_pollSaw, e_phases, e_seenFiles, scoreInvoked>>
svars == <<spc, sexc, s_parameters, solution_output_dict, solution_output_files,
           failure_declared, s_elapsed, s_sleep, s_pollSaw, runInvoked, run_outcome>>
fvars == <<descYaml, descFiles, solYaml, solFiles, evalFiles, results>>
hvars == <<envName, envStep, evars, svars, fvars, unitTicks, wroteLate>>
ctvars == <<ct_state, ct_input, transitions, g_status, g_result>>
pvars == <<score_calls, eq_calls, parse_calls, o_status>>
mkvars == <<fs, mk_stack, mk_done>>
lvars == <<config_calls, image_calls, mkvars>>
gvars == <<ctvars, pvars, lvars>>
avars == <<cache, s3, puts, d_pc, d_aws, d_todo, d_wd, d_exc, d_calls,
           u_pc, u_aws, u_input, u_todo, uploaded, u_exc, u_calls>>
storevars == <<cache, s3, puts>>
dvars == <<d_pc, d_aws, d_todo, d_wd, d_exc, d_calls>>
uvars == <<u_pc, u_aws, u_input, u_todo, uploaded, u_exc, u_calls>>
argvars == <<continuous, do_pull, do_upload, delete>>
loopvars == <<multiplier, m_before, cycle, slept>>
jobvars == <<job, wd, valid_config, cr, r_uploaded, backend>>
repvars == <<ntries, attempts, waited>>
rvars == <<r_pc, argvars, loopvars, jobvars, repvars>>
xvars == <<avars, rvars>>
vars == <<hvars, gvars, xvars>>

\* =========================================================================
\*                       wait_for_file (shared by both sides)
\* =========================================================================
\* a timeout test that forgets to add the timeout to t0
TimedOut_NoTimeout(elapsed, timeout) == elapsed > 0

\* elapsed stands for time.time() - t0
TimedOut(elapsed, timeout) == elapsed > timeout

EWaiting == epc \in {"wait_exists", "wait_timeout", "wait_sleep"}
SWaiting == spc \in {"wait_exists", "wait_timeout", "wait_sleep"}

\* =========================================================================
\*                              wrap_evaluator
\* =========================================================================
\* the InvalidEnvironment clause declaring FAILED instead of ERROR
StatusOfFailure_EnvFailed(cls) ==
    CASE cls = "InvalidSubmission" -> "FAILED"
      [] cls = "InvalidEvaluator" -> "ERROR"
      [] cls = "InvalidEnvironment" -> "FAILED"
      [] OTHER -> "ERROR"

StatusOfFailure(cls) ==
    CASE cls = "InvalidSubmission" -> "FAILED"
      [] cls = "InvalidEvaluator" -> "ERROR"
      [] cls = "InvalidEnvironment" -> "ERROR"
      [] OTHER -> "ERROR"

HandlerPrefix(cls) ==
    CASE cls = "InvalidSubmission" -> "InvalidSubmission:"
      [] cls = "InvalidEvaluator" -> "InvalidEvaluator:"
      [] cls = "InvalidEnvironment" -> "InvalidEnvironment:"
      [] OTHER -> "Unexpected exception:"

\* the invalid-evaluator branch raising InvalidSubmission
RaisedFromOutput_WrongClass(out) ==
    IF out = None THEN Exc("Other", <<"TypeError">>, "output")
    ELSE IF SPECIAL_INVALID_ENVIRONMENT \in DOMAIN out
         THEN Exc("InvalidEnvironment", out[SPECIAL_INVALID_ENVIRONMENT], "output")
    ELSE IF SPECIAL_INVALID_EVALUATOR \in DOMAIN out
         THEN Exc("InvalidSubmission", out[SPECIAL_INVALID_EVALUATOR], "output")
    ELSE IF SPECIAL_INVALID_SUBMISSION \in DOMAIN out
         THEN Exc("InvalidSubmission", out[SPECIAL_INVALID_SUBMISSION], "output")
    ELSE NoExc

\* the if/elif chain over the solution's output mapping
RaisedFromOutput(out) ==
    IF out = None THEN Exc("Other", <<"TypeError">>, "output")
    ELSE IF SPECIAL_INVALID_ENVIRONMENT \in DOMAIN out
         THEN Exc("InvalidEnvironment", out[SPECIAL_INVALID_ENVIRONMENT], "output")
    ELSE IF SPECIAL_INVALID_EVALUATOR \in DOMAIN out
         THEN Exc("InvalidEvaluator", out[SPECIAL_INVALID_EVALUATOR], "output")
    ELSE IF SPECIAL_INVALID_SUBMISSION \in DOMAIN out
         THEN Exc("InvalidSubmission", out[SPECIAL_INVALID_SUBMISSION], "output")
    ELSE NoExc

\* a declare() that reports the scores recorded so far
DeclaredRecord_KeepsScores(e) ==
    [status |-> StatusOfFailure(e.cls),
     msg |-> <<HandlerPrefix(e.cls)>> \o e.msg,
     scores |-> scores]

\* the body of declare(): the record it hands to declare_challenge_results
DeclaredRecord(e) ==
    [status |-> StatusOfFailure(e.cls),
     msg |-> <<HandlerPrefix(e.cls)>> \o e.msg,
     scores |-> EmptyDict]

\* evaluator.prepare(cie) and the except branch around it
Eval_prepare ==
    /\ epc = "prepare"
    /\ \E data \in PrepareParams \cup {None},
          files \in SUBSET ChallengeBasenames,
          outcome \in {"return"} \cup ExceptionClasses :
         /\ challenge_files' = files
         /\ IF outcome = "return"
            THEN /\ parameters' = data
                 /\ eexc' = NoExc
            ELSE /\ parameters' = Dict1(SPECIAL_ABORT, <<"Preparation aborted:", "prepare fault">>)
                 /\ eexc' = Exc(outcome, <<"prepare fault">>, "prepare")
    /\ epc' = "after_prepare"
    /\ UNCHANGED <<evaluation_files, scores, e_out, e_elapsed, e_sleep, e_pollSaw,
                   e_phases, e_seenFiles, scoreInvoked>>
    /\ UNCHANGED <<envName, envStep, svars, fvars, unitTicks, wroteLate, gvars, xvars>>

\* an after_prepare that leaves the challenge files for later
Eval_after_prepare_FilesNotWritten ==
    /\ epc = "after_prepare"
    /\ IF parameters = None
       THEN /\ eexc' = Exc("InvalidEvaluator", <<"Parameters not set">>, "after_prepare")
            /\ epc' = "except"
       ELSE /\ epc' = "after_prepare_yaml"
            /\ UNCHANGED eexc
    /\ UNCHANGED <<parameters, challenge_files, evaluation_files, scores, e_out,
                   e_elapsed, e_sleep, e_pollSaw, e_phases, e_seenFiles, scoreInvoked>>
    /\ UNCHANGED <<envName, envStep, svars, fvars, unitTicks, wroteLate, gvars, xvars>>

\* cie.after_prepare(), first half: the parameters check and challenge_files.write
Eval_after_prepare ==
    /\ epc = "after_prepare"
    /\ IF parameters = None
       THEN /\ eexc' = Exc("InvalidEvaluator", <<"Parameters not set">>, "after_prepare")
            /\ epc' = "except"
            /\ UNCHANGED descFiles
       ELSE /\ descFiles' = descFiles \cup challenge_files
            /\ epc' = "after_prepare_yaml"
            /\ UNCHANGED eexc
    /\ UNCHANGED <<parameters, challenge_files, evaluation_files, scores, e_out,
                   e_elapsed, e_sleep, e_pollSaw, e_phases, e_seenFiles, scoreInvoked>>
    /\ UNCHANGED <<envName, envStep, svars, descYaml, solYaml, solFiles, evalFiles,
                   results, unitTicks, wroteLate, gvars, xvars>>

\* the except branch without its raise: the evaluator goes on to wait
Eval_after_prepare_yaml_NoRaise ==
    /\ epc = "after_prepare_yaml"
    /\ descYaml' = parameters
    /\ epc' = "wait_exists"
    /\ e_phases' = e_phases \cup {"prepare"}
    /\ e_elapsed' = 0
    /\ UNCHANGED <<eexc, parameters, challenge_files, evaluation_files, scores, e_out,
                   e_sleep, e_pollSaw, e_seenFiles, scoreInvoked>>
    /\ UNCHANGED <<envName, envStep, svars, descFiles, solYaml, solFiles, evalFiles,
                   results, unitTicks, wroteLate, gvars, xvars>>

\* cie.after_prepare(), second half: write_yaml(parameters); then the pending
\* exception of prepare, if any, leaves the try block
Eval_after_prepare_yaml ==
    /\ epc = "after_prepare_yaml"
    /\ descYaml' = parameters
    /\ IF eexc.cls # "none"
       THEN /\ epc' = "except"
            /\ UNCHANGED <<e_phases, e_elapsed>>
       ELSE /\ epc' = "wait_exists"
            /\ e_phases' = e_phases \cup {"prepare"}
            /\ e_elapsed' = 0
    /\ UNCHANGED <<eexc, parameters, challenge_files, evaluation_files, scores, e_out,
                   e_sleep, e_pollSaw, e_seenFiles, scoreInvoked>>
    /\ UNCHANGED <<envName, envStep, svars, descFiles, solYaml, solFiles, evalFiles,
                   results, unitTicks, wroteLate, gvars, xvars>>

\* wait_for_file: the loop test os.path.exists(fn)
Eval_wait_exists ==
    /\ epc = "wait_exists"
    /\ e_pollSaw' = (solYaml # Absent)
    /\ IF solYaml # Absent
       THEN /\ epc' = "get_solution_output_dict"
            /\ e_phases' = e_phases \cup {"wait"}
       ELSE /\ epc' = "wait_timeout"
            /\ UNCHANGED e_phases
    /\ UNCHANGED <<eexc, parameters, challenge_files, evaluation_files, scores, e_out,
                   e_elapsed, e_sleep, e_seenFiles, scoreInvoked>>
    /\ UNCHANGED <<envName, envStep, svars, fvars, unitTicks, wroteLate, gvars, xvars>>

\* wait_for_file: the timeout test of the loop body; wait_for_solution turns
\* Timeout into InvalidSubmission
Eval_wait_timeout ==
    /\ epc = "wait_timeout"
    /\ IF TimedOut(e_elapsed, TIMEOUT_SOLUTION)
       THEN /\ eexc' = Exc("InvalidSubmission", <<"Time out:", "Timeout">>, "wait")
            /\ epc' = "except"
            /\ UNCHANGED e_sleep
       ELSE /\ epc' = "wait_sleep"
            /\ e_sleep' = PollWait
            /\ UNCHANGED eexc
    /\ UNCHANGED <<parameters, challenge_files, evaluation_files, scores, e_out,
                   e_elapsed, e_pollSaw, e_phases, e_seenFiles, scoreInvoked>>
    /\ UNCHANGED <<envName, envStep, svars, fvars, unitTicks, wroteLate, gvars, xvars>>

\* wait_for_file: time.sleep(wait) returns
Eval_wait_sleep ==
    /\ epc = "wait_sleep"
    /\ e_sleep = 0
    /\ epc' = "wait_exists"
    /\ UNCHANGED <<eexc, parameters, challenge_files, evaluation_files, scores, e_out,
                   e_elapsed, e_sleep, e_pollSaw, e_phases, e_seenFiles, scoreInvoked>>
    /\ UNCHANGED <<envName, envStep, svars, fvars, unitTicks, wroteLate, gvars, xvars>>

\* an evaluator that scores whatever mapping it read
Eval_get_solution_output_dict_NoMarkerTest ==
    /\ epc = "get_solution_output_dict"
    /\ e_out' = solYaml
    /\ epc' = "score"
    /\ UNCHANGED <<eexc, parameters, challenge_files, evaluation_files, scores,
                   e_elapsed, e_sleep, e_pollSaw, e_phases, e_seenFiles, scoreInvoked>>
    /\ UNCHANGED <<envName, envStep, svars, fvars, unitTicks, wroteLate, gvars, xvars>>

\* out = cie.get_solution_output_dict() and the marker tests
Eval_get_solution_output_dict ==
    /\ epc = "get_solution_output_dict"
    /\ e_out' = solYaml
    /\ eexc' = RaisedFromOutput(solYaml)
    /\ epc' = IF RaisedFromOutput(solYaml).cls # "none" THEN "except" ELSE "score"
    /\ UNCHANGED <<parameters, challenge_files, evaluation_files, scores,
                   e_elapsed, e_sleep, e_pollSaw, e_phases, e_seenFiles, scoreInvoked>>
    /\ UNCHANGED <<envName, envStep, svars, fvars, unitTicks, wroteLate, gvars, xvars>>

\* evaluator.score(cie): it lists the solution-output area, records scores and
\* evaluation files, and returns or raises
Eval_score ==
    /\ epc = "score"
    /\ scoreInvoked' = TRUE
    /\ e_seenFiles' = solFiles
    /\ \E sc \in ScoreOutputs,
          files \in SUBSET EvaluationBasenames,
          outcome \in {"return"} \cup ExceptionClasses :
         /\ scores' = sc
         /\ evaluation_files' = files
         /\ IF outcome = "return"
            THEN /\ epc' = "after_score"
                 /\ e_phases' = e_phases \cup {"score"}
                 /\ UNCHANGED eexc
            ELSE /\ epc' = "except"
                 /\ eexc' = Exc(outcome, <<"score fault">>, "score")
                 /\ UNCHANGED e_phases
    /\ UNCHANGED <<parameters, challenge_files, e_out, e_elapsed, e_sleep, e_pollSaw>>
    /\ UNCHANGED <<envName, envStep, svars, fvars, unitTicks, wroteLate, gvars, xvars>>

\* cie.after_score(), first half: the scores check and evaluation_files.write
Eval_after_score ==
    /\ epc = "after_score"
    /\ IF scores = EmptyDict
       THEN /\ eexc' = Exc("InvalidEvaluator", <<"No scores created">>, "after_score")
            /\ epc' = "except"
            /\ UNCHANGED evalFiles
       ELSE /\ evalFiles' = evalFiles \cup evaluation_files
            /\ epc' = "declare_challenge_results"
            /\ UNCHANGED eexc
    /\ UNCHANGED <<parameters, challenge_files, evaluation_files, scores, e_out,
                   e_elapsed, e_sleep, e_pollSaw, e_phases, e_seenFiles, scoreInvoked>>
    /\ UNCHANGED <<envName, envStep, svars, descYaml, descFiles, solYaml, solFiles,
                   results, unitTicks, wroteLate, gvars, xvars>>

\* cie.after_score(), second half: the SUCCESS record; wrap_evaluator returns
Eval_declare_challenge_results ==
    /\ epc = "declare_challenge_results"
    /\ results' = Append(results, [status |-> "SUCCESS", msg |-> <<>>, scores |-> scores])
    /\ e_phases' = e_phases \cup {"after_score"}
    /\ epc' = "done"
    /\ UNCHANGED <<eexc, parameters, challenge_files, evaluation_files, scores, e_out,
                   e_elapsed, e_sleep, e_pollSaw, e_seenFiles, scoreInvoked>>
    /\ UNCHANGED <<envName, envStep, svars, descYaml, descFiles, solYaml, solFiles,
                   evalFiles, unitTicks, wroteLate, gvars, xvars>>

\* wrap_evaluator without its last clause, except BaseException
Eval_except_NoBaseException ==
    /\ epc = "except"
    /\ results' = IF eexc.cls \in ClassifiedFailures
                  THEN Append(results, DeclaredRecord(eexc))
                  ELSE results
    /\ epc' = "done"
    /\ UNCHANGED <<eexc, parameters, challenge_files, evaluation_files, scores, e_out,
                   e_elapsed, e_sleep, e_pollSaw, e_phases, e_seenFiles, scoreInvoked>>
    /\ UNCHANGED <<envName, envStep, svars, descYaml, descFiles, solYaml, solFiles,
                   evalFiles, unitTicks, wroteLate, gvars, xvars>>

\* the four except clauses: declare(status, msg) writes the record and exits
Eval_except ==
    /\ epc = "except"
    /\ results' = Append(results, DeclaredRecord(eexc))
    /\ epc' = "done"
    /\ UNCHANGED <<eexc, parameters, challenge_files, evaluation_files, scores, e_out,
                   e_elapsed, e_sleep, e_pollSaw, e_phases, e_seenFiles, scoreInvoked>>
    /\ UNCHANGED <<envName, envStep, svars, descYaml, descFiles, solYaml, solFiles,
                   evalFiles, unitTicks, wroteLate, gvars, xvars>>

EvaluatorNext ==
    \/ Eval_prepare
    \/ Eval_after_prepare
    \/ Eval_after_prepare_yaml
    \/ Eval_wait_exists
    \/ Eval_wait_timeout
    \/ Eval_wait_sleep
    \/ Eval_get_solution_output_dict
    \/ Eval_score
    \/ Eval_after_score
    \/ Eval_declare_challenge_results
    \/ Eval_except

\* =========================================================================
\*                              wrap_solution
\* =========================================================================
\* the marker each except clause of wrap_solution puts in the output mapping
\* except clauses that all write the environment marker
MarkerOf_AlwaysEnvironment(cls) == SPECIAL_INVALID_ENVIRONMENT

MarkerOf(cls) ==
    CASE cls = "InvalidEnvironment" -> SPECIAL_INVALID_ENVIRONMENT
      [] cls = "InvalidEvaluator" -> SPECIAL_INVALID_EVALUATOR
      [] cls = "InvalidSubmission" -> SPECIAL_INVALID_SUBMISSION
      [] OTHER -> SPECIAL_INVALID_ENVIRONMENT

SolutionPrefix(cls) ==
    CASE cls = "InvalidEnvironment" -> "InvalidEnvironment:"
      [] cls = "InvalidEvaluator" -> "InvalidEvaluator:"
      [] cls = "InvalidSubmission" -> "Invalid solution:"
      [] OTHER -> "Uncaught exception: invalid wrap_evaluator:"

\* the abort test left out
HasAbort_Never(params) == FALSE

\* SPECIAL_ABORT in parameters
HasAbort(params) == SPECIAL_ABORT \in DOMAIN params

\* cis.get_challenge_name(); cis.get_current_step()
Sol_identity ==
    /\ spc = "identity"
    /\ IF envName /\ envStep
       THEN /\ spc' = "wait_exists"
            /\ s_elapsed' = 0
            /\ UNCHANGED sexc
       ELSE /\ spc' = "except"
            /\ sexc' = Exc("InvalidEnvironment", <<"KeyError">>, "identity")
            /\ UNCHANGED s_elapsed
    /\ UNCHANGED <<s_parameters, solution_output_dict, solution_output_files,
                   failure_declared, s_sleep, s_pollSaw, runInvoked, run_outcome>>
    /\ UNCHANGED <<envName, envStep, evars, fvars, unitTicks, wroteLate, gvars, xvars>>

\* wait_for_file: the loop test os.path.exists(fn)
Sol_wait_exists ==
    /\ spc = "wait_exists"
    /\ s_pollSaw' = (descYaml # Absent)
    /\ spc' = IF descYaml # Absent THEN "get_challenge_parameters" ELSE "wait_timeout"
    /\ UNCHANGED <<sexc, s_parameters, solution_output_dict, solution_output_files,
                   failure_declared, s_elapsed, s_sleep, runInvoked, run_outcome>>
    /\ UNCHANGED <<envName, envStep, evars, fvars, unitTicks, wroteLate, gvars, xvars>>

\* a wait that has no timeout: the solution sleeps after every failed poll
Sol_wait_timeout_KeepsWaiting ==
    /\ spc = "wait_timeout"
    /\ spc' = "wait_sleep"
    /\ s_sleep' = PollWait
    /\ UNCHANGED <<sexc, s_parameters, solution_output_dict, solution_output_files,
                   failure_declared, s_elapsed, s_pollSaw, runInvoked, run_outcome>>
    /\ UNCHANGED <<envName, envStep, evars, fvars, unitTicks, wroteLate, gvars, xvars>>

\* wait_for_file: the timeout test; wrap_solution turns Timeout into
\* InvalidEvaluator
Sol_wait_timeout ==
    /\ spc = "wait_timeout"
    /\ IF TimedOut(s_elapsed, TIMEOUT_PREPARATION)
       THEN /\ sexc' = Exc("InvalidEvaluator",
                           <<"Timeout while waiting for evaluator:", "Timeout">>, "wait")
            /\ spc' = "except"
            /\ UNCHANGED s_sleep
       ELSE /\ spc' = "wait_sleep"
            /\ s_sleep' = PollWait
            /\ UNCHANGED sexc
    /\ UNCHANGED <<s_parameters, solution_output_dict, solution_output_files,
                   failure_declared, s_elapsed, s_pollSaw, runInvoked, run_outcome>>
    /\ UNCHANGED <<envName, envStep, evars, fvars, unitTicks, wroteLate, gvars, xvars>>

\* wait_for_file: time.sleep(wait) returns
Sol_wait_sleep ==
    /\ spc = "wait_sleep"
    /\ s_sleep = 0
    /\ spc' = "wait_exists"
    /\ UNCHANGED <<sexc, s_parameters, solution_output_dict, solution_output_files,
                   failure_declared, s_elapsed, s_sleep, s_pollSaw, runInvoked, run_outcome>>
    /\ UNCHANGED <<envName, envStep, evars, fvars, unitTicks, wroteLate, gvars, xvars>>

\* parameters = cis.get_challenge_parameters() and the abort test
Sol_get_challenge_parameters ==
    /\ spc = "get_challenge_parameters"
    /\ s_parameters' = descYaml
    /\ IF HasAbort(descYaml)
       THEN /\ sexc' = Exc("InvalidEvaluator",
                           <<"I will not run solution because evaluator has aborted:">>
                               \o descYaml[SPECIAL_ABORT], "abort")
            /\ spc' = "except"
       ELSE /\ spc' = "run"
            /\ UNCHANGED sexc
    /\ UNCHANGED <<solution_output_dict, solution_output_files,
                   failure_declared, s_elapsed, s_sleep, s_pollSaw, runInvoked, run_outcome>>
    /\ UNCHANGED <<envName, envStep, evars, fvars, unitTicks, wroteLate, gvars, xvars>>

\* the classification without the check that an output mapping was recorded
RunFailure_NoOutputCheck(outcome, declared, data) ==
    IF outcome \in ClassifiedFailures
      THEN Exc(outcome, <<"run fault">>, "run")
    ELSE IF outcome = "Other"
      THEN Exc("InvalidSubmission", <<"Uncaught exception in solution:", "run fault">>, "run")
    ELSE IF declared
      THEN Exc("InvalidSubmission", <<"Submission declares failure:">>, "declared")
    ELSE NoExc

\* what leaves the Running phase: the except clauses around solution.run and
\* the two checks after it
RunFailure(outcome, declared, data) ==
    IF outcome \in ClassifiedFailures
      THEN Exc(outcome, <<"run fault">>, "run")
    ELSE IF outcome = "Other"
      THEN Exc("InvalidSubmission", <<"Uncaught exception in solution:", "run fault">>, "run")
    ELSE IF declared
      THEN Exc("InvalidSubmission", <<"Submission declares failure:">>, "declared")
    ELSE IF data = None
      THEN Exc("InvalidSubmission", <<"solution_output_dict not set.">>, "noout")
    ELSE NoExc

\* solution.run(cis) and what follows it inside the try block
Sol_run ==
    /\ spc = "run"
    /\ runInvoked' = TRUE
    /\ \E data \in RunOutputs \cup {None},
          declared \in BOOLEAN,
          files \in SUBSET SolutionBasenames,
          outcome \in {"return"} \cup ExceptionClasses :
         /\ solution_output_dict' = data
         /\ failure_declared' = declared
         /\ solution_output_files' = files
         /\ sexc' = RunFailure(outcome, declared, data)
         /\ run_outcome' = [outcome |-> outcome, has_output |-> data # None]
    /\ spc' = IF sexc'.cls # "none" THEN "except" ELSE "finally_yaml"
    /\ UNCHANGED <<s_parameters, s_elapsed, s_sleep, s_pollSaw>>
    /\ UNCHANGED <<envName, envStep, evars, fvars, unitTicks, wroteLate, gvars, xvars>>

\* the four except clauses: cis.set_solution_output_dict({marker: msg})
Sol_except ==
    /\ spc = "except"
    /\ solution_output_dict' = Dict1(MarkerOf(sexc.cls), <<SolutionPrefix(sexc.cls)>> \o sexc.msg)
    /\ spc' = "finally_yaml"
    /\ UNCHANGED <<sexc, s_parameters, solution_output_files, failure_declared,
                   s_elapsed, s_sleep, s_pollSaw, runInvoked, run_outcome>>
    /\ UNCHANGED <<envName, envStep, evars, fvars, unitTicks, wroteLate, gvars, xvars>>

\* finally: write_yaml(cis.solution_output_dict, fn)
Sol_finally_yaml ==
    /\ spc = "finally_yaml"
    /\ solYaml' = solution_output_dict
    /\ wroteLate' = (EWaiting /\ TimedOut(e_elapsed, TIMEOUT_SOLUTION))
    /\ spc' = "finally_files"
    /\ UNCHANGED <<sexc, s_parameters, solution_output_dict, solution_output_files,
                   failure_declared, s_elapsed, s_sleep, s_pollSaw, runInvoked, run_outcome>>
    /\ UNCHANGED <<envName, envStep, evars, descYaml, descFiles, solFiles, evalFiles,
                   results, unitTicks, gvars, xvars>>

\* finally: cis._write_files(); wrap_solution returns
Sol_finally_files ==
    /\ spc = "finally_files"
    /\ solFiles' = solFiles \cup solution_output_files
    /\ spc' = "done"
    /\ UNCHANGED <<sexc, s_parameters, solution_output_dict, solution_output_files,
                   failure_declared, s_elapsed, s_sleep, s_pollSaw, runInvoked, run_outcome>>
    /\ UNCHANGED <<envName, envStep, evars, descYaml, descFiles, solYaml, evalFiles,
                   results, unitTicks, wroteLate, gvars, xvars>>

SolutionNext ==
    \/ Sol_identity
    \/ Sol_wait_exists
    \/ Sol_wait_timeout
    \/ Sol_wait_sleep
    \/ Sol_get_challenge_parameters
    \/ Sol_run
    \/ Sol_except
    \/ Sol_finally_yaml
    \/ Sol_finally_files

\* =========================================================================
\*                                 the clock
\* =========================================================================
\* time.time() advances by d seconds while some side is inside wait_for_file;
\* only the comparison with the timeout is observed, so elapsed saturates
\* just above it
Tick ==
    /\ EWaiting \/ SWaiting
    /\ \E d \in {PollWait, Jump} :
         /\ d = PollWait => unitTicks < MaxUnitTicks
         /\ unitTicks' = IF d = PollWait THEN unitTicks + 1 ELSE unitTicks
         /\ e_elapsed' = IF EWaiting THEN Min(e_elapsed + d, TIMEOUT_SOLUTION + 1)
                         ELSE e_elapsed
         /\ s_elapsed' = IF SWaiting THEN Min(s_elapsed + d, TIMEOUT_PREPARATION + 1)
                         ELSE s_elapsed
         /\ e_sleep' = IF d >= e_sleep THEN 0 ELSE e_sleep - d
         /\ s_sleep' = IF d >= s_sleep THEN 0 ELSE s_sleep - d
    /\ UNCHANGED <<epc, eexc, parameters, challenge_files, evaluation_files, scores,
                   e_out, e_pollSaw, e_phases, e_seenFiles, scoreInvoked>>
    /\ UNCHANGED <<spc, sexc, s_parameters, solution_output_dict, solution_output_files,
                   failure_declared, s_pollSaw, runInvoked, run_outcome>>
    /\ UNCHANGED <<envName, envStep, fvars, wroteLate, gvars, xvars>>

\* =========================================================================
\*                           initial state and Spec
\* =========================================================================
InitHandshake ==
    /\ envName \in BOOLEAN
    /\ envStep \in BOOLEAN
    /\ epc = "prepare"
    /\ eexc = NoExc
    /\ parameters = None
    /\ challenge_files = {}
    /\ evaluation_files = {}
    /\ scores = EmptyDict
    /\ e_out = None
    /\ e_elapsed = 0
    /\ e_sleep = 0
    /\ e_pollSaw = FALSE
    /\ e_phases = {}
    /\ e_seenFiles = {}
    /\ scoreInvoked = FALSE
    /\ spc = "identity"
    /\ sexc = NoExc
    /\ s_parameters = None
    /\ solution_output_dict = None
    /\ solution_output_files = {}
    /\ failure_declared = FALSE
    /\ s_elapsed = 0
    /\ s_sleep = 0
    /\ s_pollSaw = FALSE
    /\ runInvoked = FALSE
    /\ run_outcome = [outcome |-> "none", has_output |-> FALSE]
    /\ descYaml = Absent
    /\ descFiles = {}
    /\ solYaml = Absent
    /\ solFiles = {}
    /\ evalFiles = {}
    /\ results = <<>>
    /\ unitTicks = 0
    /\ wroteLate = FALSE

InitTransitions ==
    /\ ct_state = "init"
    /\ ct_input = <<>>
    /\ transitions = <<>>
    /\ g_status = <<>>
    /\ g_result = [raised |-> "nocall", finished |-> FALSE, outcome |-> "None",
                   to_activate |-> <<>>]

InitLibrary ==
    /\ score_calls = <<>>
    /\ eq_calls = <<>>
    /\ parse_calls = <<>>
    /\ o_status = [k \in {"START"} |-> "success"]
    /\ config_calls = <<>>
    /\ image_calls = <<>>
    /\ mk_stack = [t \in 1..MaxThreads |-> <<>>]
    /\ mk_done = [t \in 1..MaxThreads |-> [state |-> "idle", dst |-> <<>>, exists |-> FALSE]]

InitArtefacts ==
    /\ cache = <<>>
    /\ s3 = <<>>
    /\ puts = <<>>
    /\ d_pc = "idle"
    /\ d_aws = FALSE
    /\ d_todo = <<>>
    /\ d_wd = <<>>
    /\ d_exc = [cls |-> "none"]
    /\ d_calls = 0
    /\ u_pc = "idle"
    /\ u_aws = FALSE
    /\ u_input = <<>>
    /\ u_todo = <<>>
    /\ uploaded = <<>>
    /\ u_exc = "none"
    /\ u_calls = 0

\* the values of go_'s locals before they are assigned
NoJob == [job_id |-> FALSE, aws_config |-> FALSE, steps2artefacts |-> <<>>]
NoResults == [status |-> "unset", msg |-> "unset", scores |-> <<>>]

InitRunner ==
    /\ multiplier = <<1, 1>>
    /\ m_before = <<1, 1>>
    /\ cycle = "none"
    /\ slept = <<0, 1>>
    /\ r_pc = "main"
    /\ job = NoJob
    /\ wd = "none"
    /\ valid_config = "unset"
    /\ cr = NoResults
    /\ r_uploaded = <<>>
    /\ backend = <<>>
    /\ ntries = 0
    /\ attempts = <<>>
    /\ waited = 0

\* the flags when --no-pull, --no-upload and --no-delete are not given
DefaultFlags == continuous = FALSE /\ do_pull = TRUE /\ do_upload = TRUE /\ delete = TRUE

Init ==
    /\ InitHandshake /\ InitTransitions /\ InitLibrary /\ InitArtefacts /\ InitRunner
    /\ DefaultFlags
    /\ fs = {}

Next == EvaluatorNext \/ SolutionNext \/ Tick

Spec == Init /\ [][Next]_vars

\* the two processes are scheduled by the operating system and time passes
FairSpec ==
    /\ Spec
    /\ WF_vars(EvaluatorNext)
    /\ WF_vars(SolutionNext)
    /\ WF_vars(Tick)

\* =========================================================================
\*              ChallengeTransitions (challenge.py): the step graph
\* =========================================================================
STATE_START == "START"
STATE_ERROR == "ERROR"
STATE_SUCCESS == "SUCCESS"
STATE_FAILED == "FAILED"
Terminals == {STATE_ERROR, STATE_FAILED, STATE_SUCCESS}

\* ChallengesConstants (challenges_constants.py)
ALLOWED_JOB_STATUS == {"success", "failed", "error", "aborted", "host-error", "outdated"}
STATUS_ABORTED == "aborted"
ALLOWED_CONDITION_TRIGGERS == ALLOWED_JOB_STATUS

\* a challenge that has a step named like a terminal state
Steps_WithTerminalName == {"s1", "s2", STATE_SUCCESS}

\* the declared steps (self.steps); no step is named like START or a terminal
Steps == {"s1", "s2"}

\* str.lower() on the terminal values
Lower(s) ==
    CASE s = "SUCCESS" -> "success"
      [] s = "FAILED" -> "failed"
      [] s = "ERROR" -> "error"
      [] OTHER -> s

\* transitions offered to the constructor: Transition(first, condition, second)
ValidPool ==
    { <<STATE_START, "success", "s1">>,
      <<STATE_START, "success", "s2">>,
      <<STATE_START, "success", STATE_SUCCESS>>,
      <<"s1", "success", STATE_SUCCESS>>,
      <<"s1", "failed", STATE_FAILED>>,
      <<"s1", "success", "s2">>,
      <<"s1", "success", STATE_FAILED>>,
      <<"s2", "success", STATE_SUCCESS>>,
      <<"s2", "failed", STATE_ERROR>> }
InvalidPool ==
    { <<"zz", "success", "s1">>,
      <<"s1", "success", "zz">>,
      <<"s1", "bogus", "s2">> }
TransitionPool == ValidPool \cup InvalidPool

\* a constructor that does not check the target of a transition
TransitionAccepted_NoTargetCheck(t) ==
    /\ t[1] = STATE_START \/ t[1] \in Steps
    /\ t[2] \in ALLOWED_CONDITION_TRIGGERS

\* the three asserts of ChallengeTransitions.__init__
TransitionAccepted(t) ==
    /\ t[1] = STATE_START \/ t[1] \in Steps
    /\ t[3] \in Terminals \/ t[3] \in Steps
    /\ t[2] \in ALLOWED_CONDITION_TRIGGERS

\* status maps handed to get_next_steps: each key is absent or carries a value
StatusKeys == {STATE_START, "s1", "s2", "zz"}
StatusValues(k) ==
    CASE k = STATE_START -> {"success", "failed"}
      [] k = "zz" -> {"success", "bogus"}
      [] OTHER -> {"success", "failed", "aborted", "bogus"}
StatusMaps ==
    UNION { { m \in [D -> {"success", "failed", "aborted", "bogus"}] :
                \A k \in D : m[k] \in StatusValues(k) } :
            D \in { D0 \in SUBSET StatusKeys :
                      STATE_START \in D0 \/ D0 = {} } }

\* the loop that drops invalid entries: an entry is popped when its key is not
\* START or a step, and popped when its value is not an allowed job status
PoppedForKey(status, k) == k # STATE_START /\ k \notin Steps
PoppedForValue(status, k) == status[k] \notin ALLOWED_JOB_STATUS
\* the second status.pop(k) of the same key raises KeyError
SanitizeRaises(status) ==
    \E k \in DOMAIN status : PoppedForKey(status, k) /\ PoppedForValue(status, k)
\* a call that forgets the status of every step
Sanitize_KeepsStartOnly(status) == [k \in {STATE_START} |-> status[k]]

Sanitize(status) ==
    [k \in {x \in DOMAIN status : ~PoppedForKey(status, x) /\ ~PoppedForValue(status, x)}
       |-> status[k]]

\* an engine that returns every step of its activation list once
Returned_Deduplicated(fin, outcome, act) ==
    LET first == {i \in DOMAIN act : \A j \in 1..(i - 1) : act[j] # act[i]}
        nth(p) == CHOOSE i \in first : Cardinality({j \in first : j <= i}) = p
    IN  [raised |-> "none", finished |-> fin, outcome |-> outcome,
         to_activate |-> [p \in 1..Cardinality(first) |-> act[nth(p)]]]

Returned(fin, outcome, act) ==
    [raised |-> "none", finished |-> fin, outcome |-> outcome, to_activate |-> act]
Raised(what) ==
    [raised |-> what, finished |-> FALSE, outcome |-> "None", to_activate |-> <<>>]
NoCall == Raised("nocall")

\* an engine for which an aborted step counts as having run
like_it_does_not_exist_Empty == {}

like_it_does_not_exist == {STATUS_ABORTED}

\* a loop that lets a later terminal transition override an earlier one
RECURSIVE TransitionLoop_LastWins(_, _, _, _)
TransitionLoop_LastWins(ts, status, i, to_activate) ==
    IF i > Len(ts)
    THEN Returned(FALSE, "None", to_activate)
    ELSE LET t == ts[i] IN
         IF t[1] \in DOMAIN status /\ status[t[1]] = t[2]
         THEN IF t[3] \in DOMAIN status /\ status[t[3]] \notin like_it_does_not_exist
              THEN TransitionLoop_LastWins(ts, status, i + 1, to_activate)
              ELSE IF t[3] \in Terminals
                   THEN LET rest == TransitionLoop_LastWins(ts, status, i + 1, to_activate)
                        IN  IF rest.finished THEN rest
                            ELSE Returned(TRUE, Lower(t[3]), <<>>)
                   ELSE TransitionLoop_LastWins(ts, status, i + 1, Append(to_activate, t[3]))
         ELSE TransitionLoop_LastWins(ts, status, i + 1, to_activate)

\* the for loop over self.transitions, from transition i on, with to_activate
\* as accumulated so far
RECURSIVE TransitionLoop(_, _, _, _)
TransitionLoop(ts, status, i, to_activate) ==
    IF i > Len(ts)
    THEN Returned(FALSE, "None", to_activate)
    ELSE LET t == ts[i] IN
         IF t[1] \in DOMAIN status /\ status[t[1]] = t[2]
         THEN IF t[3] \in DOMAIN status /\ status[t[3]] \notin like_it_does_not_exist
              THEN TransitionLoop(ts, status, i + 1, to_activate)
              ELSE IF t[3] \in Terminals
                   THEN Returned(TRUE, Lower(t[3]), <<>>)
                   ELSE TransitionLoop(ts, status, i + 1, Append(to_activate, t[3]))
         ELSE TransitionLoop(ts, status, i + 1, to_activate)

\* a call whose loop misses the first declared transition
get_next_steps_FromSecond(ts, status) ==
    IF STATE_START \notin DOMAIN status THEN Raised("AssertionError")
    ELSE IF status[STATE_START] # "success" THEN Raised("AssertionError")
    ELSE IF SanitizeRaises(status) THEN Raised("KeyError")
    ELSE TransitionLoop(ts, Sanitize(status), 2, <<>>)

get_next_steps(ts, status) ==
    IF STATE_START \notin DOMAIN status THEN Raised("AssertionError")
    ELSE IF status[STATE_START] # "success" THEN Raised("AssertionError")
    ELSE IF SanitizeRaises(status) THEN Raised("KeyError")
    ELSE TransitionLoop(ts, Sanitize(status), 1, <<>>)

\* one iteration of the constructor's loop over its transitions argument (of
\* which ct_input is the part consumed so far): the asserts, then the append
CT_init ==
    /\ ct_state = "init"
    /\ Len(transitions) < MaxTransitions
    /\ \E t \in TransitionPool :
         /\ ct_input' = Append(ct_input, t)
         /\ IF TransitionAccepted(t)
            THEN /\ transitions' = Append(transitions, t)
                 /\ UNCHANGED ct_state
            ELSE /\ ct_state' = "AssertionError"
                 /\ UNCHANGED transitions
    /\ UNCHANGED <<g_status, g_result, pvars, lvars, hvars, xvars>>

\* a call of get_next_steps on the graph constructed so far
CT_get_next_steps ==
    /\ ct_state = "init"
    /\ \E status \in StatusMaps :
         /\ g_status' = status
         /\ g_result' = get_next_steps(transitions, status)
    /\ ct_state' = "called"
    /\ UNCHANGED <<ct_input, transitions, pvars, lvars, hvars, xvars>>

NextTransitions == CT_init \/ CT_get_next_steps

\* the engine is exercised with the environment fully set
InitEngine == Init /\ envName /\ envStep

SpecTransitions == InitEngine /\ [][NextTransitions]_vars

\* the caller, told that the submission is finished, calls get_next_steps
\* again with a status map that has the same entries and, for some of the
\* declared steps that had none, an allowed job status
CT_get_next_steps_extended ==
    /\ ct_state \in {"called", "extended"}
    /\ g_result.raised = "none"
    /\ g_result.finished
    /\ \E K \in SUBSET (Steps \ DOMAIN g_status) :
         /\ K # {}
         /\ \E more \in [K -> ALLOWED_JOB_STATUS] :
              LET status == [k \in DOMAIN g_status \cup K |->
                                IF k \in K THEN more[k] ELSE g_status[k]]
              IN  /\ g_status' = status
                  /\ g_result' = get_next_steps(transitions, status)
    /\ ct_state' = "extended"
    /\ UNCHANGED <<ct_input, transitions, pvars, lvars, hvars, xvars>>

NextMonotone == CT_init \/ CT_get_next_steps \/ CT_get_next_steps_extended

SpecMonotone == InitEngine /\ [][NextMonotone]_vars

\* the caller of get_next_steps: it starts from {START: success}, calls
\* get_next_steps on its status map, and for every step of the activation
\* list runs the step and records the status it ended with
OrchStatuses == ALLOWED_JOB_STATUS \ {STATUS_ABORTED}
Orch_round ==
    /\ ct_state \in {"init", "orchestrating"}
    /\ ct_state' = "orchestrating"
    /\ g_status' = o_status
    /\ g_result' = get_next_steps(transitions, o_status)
    /\ LET activated == {g_result'.to_activate[i] : i \in DOMAIN g_result'.to_activate}
       IN  o_status' \in {m \in [DOMAIN o_status \cup activated -> ALLOWED_JOB_STATUS] :
                            /\ \A k \in activated : m[k] \in OrchStatuses
                            /\ \A k \in DOMAIN o_status \ activated : m[k] = o_status[k]}
    /\ UNCHANGED <<ct_input, transitions, score_calls, eq_calls, parse_calls, lvars,
                   hvars, xvars>>

NextOrchestrator == CT_init \/ Orch_round

SpecOrchestrator == InitEngine /\ [][NextOrchestrator]_vars

\* the caller keeps calling
FairSpecOrchestrator == SpecOrchestrator /\ WF_vars(Orch_round)

\* =========================================================================
\*          runner.py: the local cache, download_artefacts and upload
\* =========================================================================
\* file contents are byte strings
ContentA == <<1, 2>>
ContentB == <<3>>
\* ContentA cut short by a broken transfer
Truncated == <<1>>
Contents == {ContentA, ContentB}

\* os.stat(fn).st_size
Size(content) == Len(content)

\* shasum -a 256: distinct contents have distinct digests
compute_sha256hex(content) ==
    CASE content = ContentA -> "c8a2"
      [] content = ContentB -> "084f"
      [] content = Truncated -> "4bf5"
      [] OTHER -> "e3b0"

Put(f, k, v) == [x \in DOMAIN f \cup {k} |-> IF x = k THEN v ELSE f[x]]

\* runner_cache: the cache maps a digest to the content stored under it
\* get_file_from_cache raises KeyError for a digest that is not a key
InCache(c, sha256hex) == sha256hex \in DOMAIN c
\* copy_to_cache stores the file under the digest it is given, once
copy_to_cache(c, content, sha256hex) ==
    IF sha256hex \in DOMAIN c THEN c ELSE Put(c, sha256hex, content)

\* one entry of steps2artefacts[step_name]: what the server declares (digest,
\* size, storage) and what get_object obtains from the storage location
Artefact(rpath, content, storage, ok, fetched) ==
    [rpath |-> rpath, sha256hex |-> compute_sha256hex(content), size |-> Size(content),
     storage |-> storage, fetch |-> [ok |-> ok, content |-> fetched]]
ArtefactPool ==
    { Artefact("p1", ContentA, {}, FALSE, <<>>),
      Artefact("p2", ContentA, {"s3"}, TRUE, ContentA),
      Artefact("p3", ContentA, {"s3"}, TRUE, Truncated),
      Artefact("p4", ContentA, {"s3"}, FALSE, <<>>),
      Artefact("p5", ContentB, {"s3"}, TRUE, ContentB) }
ArtefactLists ==
    { l \in UNION { [1..n -> ArtefactPool] : n \in 0..MaxArtefacts } :
        \A i, j \in DOMAIN l : i # j => l[i].rpath # l[j].rpath }

NoDownloadExc == [cls |-> "none"]
DownloadExc(c, a) == [cls |-> c, artefact |-> a]

\* a call of download_artefacts(aws_config, steps2artefacts, wd) on a fresh wd
Download_call ==
    /\ d_pc \in {"idle", "returned", "raised"}
    /\ d_calls < MaxDownloadCalls
    /\ \E aws \in BOOLEAN, arts \in ArtefactLists :
         /\ d_aws' = aws
         /\ d_todo' = arts
    /\ d_pc' = "loop"
    /\ d_wd' = <<>>
    /\ d_exc' = NoDownloadExc
    /\ d_calls' = d_calls + 1
    /\ UNCHANGED <<cache, s3, puts, u_pc, u_aws, u_input, u_todo, uploaded, u_exc, u_calls,
                   hvars, gvars, rvars>>

\* one iteration of the loop over the artefacts of a step
Download_artefact ==
    /\ d_pc = "loop"
    /\ d_todo # <<>>
    /\ LET a == Head(d_todo) IN
         IF InCache(cache, a.sha256hex)
         THEN \* get_file_from_cache copies the cached file to fn
              /\ d_wd' = Put(d_wd, a.rpath, cache[a.sha256hex])
              /\ d_todo' = Tail(d_todo)
              /\ UNCHANGED <<cache, d_pc, d_exc>>
         ELSE IF "s3" \in a.storage
         THEN IF ~d_aws
              THEN /\ d_pc' = "raised"
                   /\ d_exc' = DownloadExc("CouldNotDownloadAll", a)
                   /\ UNCHANGED <<cache, d_wd, d_todo>>
              ELSE IF ~a.fetch.ok
              THEN \* get_object raises
                   /\ d_pc' = "raised"
                   /\ d_exc' = DownloadExc("ClientError", a)
                   /\ UNCHANGED <<cache, d_wd, d_todo>>
              ELSE \* get_object, then copy_to_cache, then the size check
                   /\ d_wd' = Put(d_wd, a.rpath, a.fetch.content)
                   /\ cache' = copy_to_cache(cache, a.fetch.content, a.sha256hex)
                   /\ IF Size(a.fetch.content) # a.size
                      THEN /\ d_pc' = "raised"
                           /\ d_exc' = DownloadExc("ValueError", a)
                           /\ UNCHANGED d_todo
                      ELSE /\ d_todo' = Tail(d_todo)
                           /\ UNCHANGED <<d_pc, d_exc>>
         ELSE /\ d_pc' = "raised"
              /\ d_exc' = DownloadExc("CouldNotDownloadAll", a)
              /\ UNCHANGED <<cache, d_wd, d_todo>>
    /\ UNCHANGED <<s3, puts, d_aws, d_calls, u_pc, u_aws, u_input, u_todo, uploaded, u_exc,
                   u_calls, hvars, gvars, rvars>>

\* the loops are exhausted: download_artefacts returns
Download_return ==
    /\ d_pc = "loop"
    /\ d_todo = <<>>
    /\ d_pc' = "returned"
    /\ UNCHANGED <<cache, s3, puts, d_aws, d_todo, d_wd, d_exc, d_calls,
                   u_pc, u_aws, u_input, u_todo, uploaded, u_exc, u_calls, hvars, gvars, rvars>>

\* ------------------------------------------------------------ upload_files
aws_path_by_value == "by-value"
\* toupload: an ordered mapping from relative path to file
UploadPaths == {"out1", "out2", "out3"}
ToUpload ==
    { l \in UNION { [1..n -> [rpath : UploadPaths, content : Contents]] : n \in 0..MaxFiles } :
        \A i, j \in DOMAIN l : i # j => l[i].rpath # l[j].rpath }

\* a storage key derived from the relative path
object_key_ByPath(rpath, sha256hex) == <<aws_path_by_value, rpath>>

\* os.path.join(aws_path_by_value, 'sha256', sha256hex)
object_key(rpath, sha256hex) == <<aws_path_by_value, "sha256", sha256hex>>

UploadRecord(f, storage) ==
    [size |-> Size(f.content), rpath |-> f.rpath,
     sha256hex |-> compute_sha256hex(f.content), storage |-> storage]

\* a call of upload_files(wd, aws_config) on the files found in wd
Upload_call ==
    /\ u_pc \in {"idle", "returned", "raised"}
    /\ u_calls < MaxUploadCalls
    /\ \E aws \in BOOLEAN, toupload \in ToUpload :
         /\ u_aws' = aws
         /\ u_input' = toupload
         /\ u_todo' = toupload
    /\ u_pc' = "loop"
    /\ uploaded' = <<>>
    /\ u_exc' = "none"
    /\ u_calls' = u_calls + 1
    /\ UNCHANGED <<cache, s3, puts, d_pc, d_aws, d_todo, d_wd, d_exc, d_calls, hvars, gvars, rvars>>

\* one iteration of the loop of only_copy_to_cache (no aws_config) or of upload
Upload_file ==
    /\ u_pc = "loop"
    /\ u_todo # <<>>
    /\ LET f == Head(u_todo)
           sha256hex == compute_sha256hex(f.content)
           key == object_key(f.rpath, sha256hex)
       IN
         /\ cache' = copy_to_cache(cache, f.content, sha256hex)
         /\ IF ~u_aws
            THEN /\ uploaded' = Append(uploaded, UploadRecord(f, EmptyDict))
                 /\ u_todo' = Tail(u_todo)
                 /\ UNCHANGED <<s3, puts, u_pc, u_exc>>
            ELSE \/ \* aws_object.load() succeeds: 'known'
                    /\ key \in DOMAIN s3
                    /\ uploaded' = Append(uploaded, UploadRecord(f, Dict1("s3", key)))
                    /\ u_todo' = Tail(u_todo)
                    /\ UNCHANGED <<s3, puts, u_pc, u_exc>>
                 \/ \* ClientError 404, then upload_file
                    /\ key \notin DOMAIN s3
                    /\ s3' = Put(s3, key, f.content)
                    /\ puts' = Append(puts, [key |-> key, content |-> f.content])
                    /\ uploaded' = Append(uploaded, UploadRecord(f, Dict1("s3", key)))
                    /\ u_todo' = Tail(u_todo)
                    /\ UNCHANGED <<u_pc, u_exc>>
                 \/ \* another ClientError of load(), or upload_file raises
                    /\ u_pc' = "raised"
                    /\ u_exc' = "ClientError"
                    /\ UNCHANGED <<s3, puts, uploaded, u_todo>>
    /\ UNCHANGED <<d_pc, d_aws, d_todo, d_wd, d_exc, d_calls, u_aws, u_input, u_calls,
                   hvars, gvars, rvars>>

\* the loop is exhausted: upload_files returns the records
Upload_return ==
    /\ u_pc = "loop"
    /\ u_todo = <<>>
    /\ u_pc' = "returned"
    /\ UNCHANGED <<cache, s3, puts, d_pc, d_aws, d_todo, d_wd, d_exc, d_calls,
                   u_aws, u_input, u_todo, uploaded, u_exc, u_calls, hvars, gvars, rvars>>

NextDownload == Download_call \/ Download_artefact \/ Download_return

SpecDownload == InitEngine /\ [][NextDownload]_vars

NextUpload == Upload_call \/ Upload_file \/ Upload_return

SpecUpload == InitEngine /\ [][NextUpload]_vars

\* =========================================================================
\*            runner.py: the continuous loop and go_
\* =========================================================================
\* the cap of the multiplier of timeout = 5.0 seconds
max_multiplier == 10
\* ntries = 5 and interval = 10 of the report loop
ntries_initial == 5
interval == 10

\* the multiplier is a float that is only ever multiplied by 1.5 or replaced
\* by 1.0 or max_multiplier: it is kept exactly, as <<numerator, denominator>>
One == <<1, 1>>
\* multiplier *= 1.5
Times15(m) == <<3 * m[1], 2 * m[2]>>
\* min(multiplier, max_multiplier)
MinMultiplier(m) == IF m[1] <= max_multiplier * m[2] THEN m ELSE <<max_multiplier, 1>>

\* a loop in which NothingLeft backs off like a failure
multiplier_after_BackoffOnNothingLeft(outcome, m) ==
    IF outcome = "returned" THEN One ELSE Times15(m)

\* the try/except around go_ in the continuous loop
multiplier_after(outcome, m) ==
    CASE outcome = "returned" -> One
      [] outcome = "NothingLeft" -> m
      [] outcome = "ConnectionError" -> Times15(m)
      [] OTHER -> Times15(m)

\* what dtserver_work_submission may answer with a job_id
JobArtefacts ==
    { <<>>,
      << Artefact("p1", ContentA, {}, FALSE, <<>>) >>,
      << Artefact("p2", ContentA, {"s3"}, TRUE, ContentA) >>,
      << Artefact("p3", ContentA, {"s3"}, TRUE, Truncated) >> }
Jobs == [job_id : {TRUE}, aws_config : BOOLEAN, steps2artefacts : JobArtefacts]
\* the files found in wd by get_files_to_upload
JobFiles == { <<>>, << [rpath |-> "out1", content |-> ContentB] >> }

ChallengeResults(st, m, sc) == [status |-> st, msg |-> m, scores |-> sc]
\* what read_challenge_results may find in the results file
BackendResults ==
    { ChallengeResults("SUCCESS", "results file", Dict1("score1", 1)),
      ChallengeResults("FAILED", "results file", EmptyDict),
      ChallengeResults("ERROR", "results file", EmptyDict) }
valid_config_error == "Could not validate Docker Compose configuration"
RunError == ChallengeResults("ERROR", "Uncaught exception while running Docker Compose", EmptyDict)
UncaughtError == ChallengeResults("ERROR", "Uncaught exception", EmptyDict)

\* dt_challenges_evaluator takes the branch of parsed.continuous
Main_continuous ==
    /\ r_pc = "main"
    /\ continuous
    /\ r_pc' = "loop_head"
    /\ UNCHANGED <<argvars, loopvars, jobvars, repvars, avars, hvars, gvars>>

\* without --continuous go_ is called once, for the submission asked for or
\* for any
Main_single ==
    /\ r_pc = "main"
    /\ ~continuous
    /\ r_pc' = "work_submission"
    /\ UNCHANGED <<argvars, loopvars, jobvars, repvars, avars, hvars, gvars>>

\* the single call has returned or raised: the program ends
Main_single_end ==
    /\ r_pc = "go_ended"
    /\ ~continuous
    /\ r_pc' = "exit"
    /\ UNCHANGED <<argvars, loopvars, jobvars, repvars, avars, hvars, gvars>>

\* the head of the continuous loop, up to the call of go_ (whose locals, and
\* those of the functions it calls, do not exist before the call)
Loop_head ==
    /\ r_pc = "loop_head"
    /\ multiplier' = MinMultiplier(multiplier)
    /\ m_before' = MinMultiplier(multiplier)
    /\ r_pc' = "work_submission"
    /\ job' = NoJob
    /\ wd' = "none"
    /\ valid_config' = "unset"
    /\ cr' = NoResults
    /\ r_uploaded' = <<>>
    /\ backend' = <<>>
    /\ ntries' = 0
    /\ attempts' = <<>>
    /\ waited' = 0
    /\ d_pc' = "idle" /\ d_aws' = FALSE /\ d_todo' = <<>> /\ d_wd' = <<>>
    /\ d_exc' = NoDownloadExc
    /\ u_pc' = "idle" /\ u_aws' = FALSE /\ u_input' = <<>> /\ u_todo' = <<>>
    /\ uploaded' = <<>> /\ u_exc' = "none"
    /\ UNCHANGED <<argvars, cycle, slept, storevars, d_calls, u_calls, hvars, gvars>>

\* go_ up to the answer of the server
Go_work_submission ==
    /\ r_pc = "work_submission"
    /\ \/ \E e \in {"ConnectionError", "Other", "NothingLeft"} :
            /\ cycle' = e
            /\ r_pc' = "go_ended"
            /\ UNCHANGED job
       \/ \E j \in Jobs :
            /\ job' = j
            /\ r_pc' = "setup"
            /\ UNCHANGED cycle
    /\ UNCHANGED <<argvars, multiplier, m_before, slept, wd, valid_config, cr, r_uploaded,
                   backend, repvars, avars, hvars, gvars>>

\* try_s3, the creation of wd, EvaluationParameters.from_yaml
Go_setup ==
    /\ r_pc = "setup"
    /\ \/ /\ wd' = "exists"
          /\ r_pc' = "prepare_dir"
       \/ /\ wd' \in {"none", "exists"}
          /\ r_pc' = "except"
    /\ UNCHANGED <<argvars, loopvars, job, valid_config, cr, r_uploaded, backend, repvars,
                   avars, hvars, gvars>>

\* prepare_dir calls download_artefacts
Go_prepare_dir ==
    /\ r_pc = "prepare_dir"
    /\ d_pc' = "loop"
    /\ d_aws' = job.aws_config
    /\ d_todo' = job.steps2artefacts
    /\ d_wd' = <<>>
    /\ d_exc' = NoDownloadExc
    /\ r_pc' = "download"
    /\ UNCHANGED <<argvars, loopvars, jobvars, repvars, storevars, d_calls, uvars,
                   hvars, gvars>>

\* a prepare_dir that swallows the exception of download_artefacts
Go_downloaded_IgnoresFailure ==
    /\ r_pc = "download"
    /\ d_pc \in {"returned", "raised"}
    /\ r_pc' = "get_config"
    /\ UNCHANGED <<argvars, loopvars, jobvars, repvars, avars, hvars, gvars>>

\* download_artefacts has returned or raised: what it raises leaves prepare_dir
\* and the try block of go_
Go_downloaded ==
    /\ r_pc = "download"
    /\ d_pc \in {"returned", "raised"}
    /\ r_pc' = IF d_pc = "returned" THEN "get_config" ELSE "except"
    /\ UNCHANGED <<argvars, loopvars, jobvars, repvars, avars, hvars, gvars>>

\* get_config and the writing of docker-compose.yaml
Go_get_config ==
    /\ r_pc = "get_config"
    /\ r_pc' \in {"validate", "except"}
    /\ UNCHANGED <<argvars, loopvars, jobvars, repvars, avars, hvars, gvars>>

\* run_docker(wd, project, ['config'])
Go_validate ==
    /\ r_pc = "validate"
    /\ backend' = Append(backend, "config")
    /\ \/ /\ valid_config' = "valid"
          /\ r_pc' = "run"
       \/ \* DockerComposeFail
          /\ valid_config' = "invalid"
          /\ r_pc' = "invalid_config"
       \/ \* any other exception
          /\ r_pc' = "except"
          /\ UNCHANGED valid_config
    /\ UNCHANGED <<argvars, loopvars, job, wd, cr, r_uploaded, repvars, avars, hvars, gvars>>

Go_invalid_config ==
    /\ r_pc = "invalid_config"
    /\ cr' = ChallengeResults("ERROR", valid_config_error, EmptyDict)
    /\ r_pc' = "upload_files"
    /\ UNCHANGED <<argvars, loopvars, job, wd, valid_config, r_uploaded, backend, repvars,
                   avars, hvars, gvars>>

\* run(): docker.from_env(), then the pull
Go_run_pull ==
    /\ r_pc = "run"
    /\ \/ \* docker.from_env() raises, outside the try of run()
          /\ r_pc' = "except"
          /\ UNCHANGED <<backend, cr>>
       \/ /\ do_pull
          /\ backend' = Append(backend, "pull")
          /\ \/ /\ r_pc' = "up"
                /\ UNCHANGED cr
             \/ /\ cr' = RunError
                /\ r_pc' = "write_logs"
       \/ /\ ~do_pull
          /\ r_pc' = "up"
          /\ UNCHANGED <<backend, cr>>
    /\ UNCHANGED <<argvars, loopvars, job, wd, valid_config, r_uploaded, repvars,
                   avars, hvars, gvars>>

\* run(): networks.prune, up --abort-on-container-exit, read_challenge_results
Go_run_up ==
    /\ r_pc = "up"
    /\ \/ \* networks.prune raises
          /\ cr' = RunError
          /\ UNCHANGED backend
       \/ /\ backend' = Append(backend, "up")
          /\ cr' \in BackendResults \cup {RunError}
    /\ r_pc' = "write_logs"
    /\ UNCHANGED <<argvars, loopvars, job, wd, valid_config, r_uploaded, repvars,
                   avars, hvars, gvars>>

Go_write_logs ==
    /\ r_pc = "write_logs"
    /\ backend' = Append(backend, "ps")
    /\ r_pc' \in {"upload_files", "except"}
    /\ UNCHANGED <<argvars, loopvars, job, wd, valid_config, cr, r_uploaded, repvars,
                   avars, hvars, gvars>>

\* upload_files(wd, aws_config), aws_config being None without do_upload
Go_upload_files ==
    /\ r_pc = "upload_files"
    /\ u_aws' = (do_upload /\ job.aws_config)
    /\ \E files \in JobFiles :
         /\ u_input' = files
         /\ u_todo' = files
    /\ u_pc' = "loop"
    /\ uploaded' = <<>>
    /\ u_exc' = "none"
    /\ r_pc' = "upload"
    /\ UNCHANGED <<argvars, loopvars, jobvars, repvars, storevars, dvars, u_calls,
                   hvars, gvars>>

Go_uploaded ==
    /\ r_pc = "upload"
    /\ u_pc \in {"returned", "raised"}
    /\ IF u_pc = "returned"
       THEN /\ r_uploaded' = uploaded
            /\ r_pc' = "down"
       ELSE /\ r_pc' = "except"
            /\ UNCHANGED r_uploaded
    /\ UNCHANGED <<argvars, loopvars, job, wd, valid_config, cr, backend, repvars,
                   avars, hvars, gvars>>

\* if delete: run_docker(wd, project, ['down'])
Go_down ==
    /\ r_pc = "down"
    /\ IF delete
       THEN /\ backend' = Append(backend, "down")
            /\ r_pc' \in {"rmtree", "except"}
       ELSE /\ r_pc' = "stats"
            /\ UNCHANGED backend
    /\ UNCHANGED <<argvars, loopvars, job, wd, valid_config, cr, r_uploaded, repvars,
                   avars, hvars, gvars>>

\* if delete: shutil.rmtree(wd)
Go_rmtree ==
    /\ r_pc = "rmtree"
    /\ \/ /\ wd' = "removed"
          /\ r_pc' = "stats"
       \/ /\ r_pc' = "except"
          /\ UNCHANGED wd
    /\ UNCHANGED <<argvars, loopvars, job, valid_config, cr, r_uploaded, backend, repvars,
                   avars, hvars, gvars>>

\* a go_ without the except clause: the exception leaves go_
Go_except_Reraises ==
    /\ r_pc = "except"
    /\ r_pc' = "go_ended"
    /\ UNCHANGED <<argvars, loopvars, jobvars, repvars, avars, hvars, gvars>>

\* except BaseException
Go_except ==
    /\ r_pc = "except"
    /\ cr' = UncaughtError
    /\ r_uploaded' = <<>>
    /\ r_pc' = "stats"
    /\ UNCHANGED <<argvars, loopvars, job, wd, valid_config, backend, repvars,
                   avars, hvars, gvars>>

\* the message, cr.get_stats(), ntries and interval
Go_stats ==
    /\ r_pc = "stats"
    /\ ntries' = ntries_initial
    /\ r_pc' = "report"
    /\ UNCHANGED <<argvars, loopvars, jobvars, attempts, waited, avars, hvars, gvars>>

\* a report loop that allows one more attempt
ReportLoopContinues_OneMore(n) == n >= -1

\* while ntries >= 0
ReportLoopContinues(n) == n >= 0

Attempt(ok) ==
    [ok |-> ok, at |-> waited, result |-> cr.status,
     stats |-> [msg |-> cr.msg, scores |-> cr.scores], uploaded |-> r_uploaded]

\* one iteration of the report loop: dtserver_report_job, then break, or
\* the except clause with its sleep
Go_report ==
    /\ r_pc = "report"
    /\ ReportLoopContinues(ntries)
    /\ \/ /\ attempts' = Append(attempts, Attempt(TRUE))
          /\ r_pc' = "go_ended"
          /\ cycle' = "returned"
          /\ UNCHANGED <<ntries, waited>>
       \/ /\ attempts' = Append(attempts, Attempt(FALSE))
          /\ ntries' = ntries - 1
          /\ waited' = waited + interval
          /\ UNCHANGED <<r_pc, cycle>>
    /\ UNCHANGED <<argvars, multiplier, m_before, slept, jobvars, avars, hvars, gvars>>

\* the loop condition fails: go_ returns
Go_report_exhausted ==
    /\ r_pc = "report"
    /\ ~ReportLoopContinues(ntries)
    /\ r_pc' = "go_ended"
    /\ cycle' = "returned"
    /\ UNCHANGED <<argvars, multiplier, m_before, slept, jobvars, repvars, avars,
                   hvars, gvars>>

\* the else/except clauses around go_, then time.sleep(timeout * multiplier)
Loop_sleep ==
    /\ r_pc = "go_ended"
    /\ continuous
    /\ multiplier' = multiplier_after(cycle, multiplier)
    /\ slept' = multiplier_after(cycle, multiplier)
    /\ r_pc' = "loop_head"
    /\ UNCHANGED <<argvars, m_before, cycle, jobvars, repvars, avars, hvars, gvars>>

GoNext ==
    \/ Go_work_submission \/ Go_setup \/ Go_prepare_dir \/ Go_downloaded
    \/ Go_get_config \/ Go_validate \/ Go_invalid_config
    \/ Go_run_pull \/ Go_run_up \/ Go_write_logs
    \/ Go_upload_files \/ Go_uploaded \/ Go_down \/ Go_rmtree \/ Go_except
    \/ Go_stats \/ Go_report \/ Go_report_exhausted
    \/ Download_artefact \/ Download_return \/ Upload_file \/ Upload_return

\* the evaluator started without --continuous, with any of the other flags
NextRunner == Main_single \/ GoNext \/ Main_single_end

InitRunnerFlags ==
    /\ InitHandshake /\ envName /\ envStep
    /\ InitTransitions /\ InitLibrary /\ InitArtefacts /\ InitRunner
    /\ fs = {}
    /\ continuous = FALSE
    /\ do_pull \in BOOLEAN /\ do_upload \in BOOLEAN /\ delete \in BOOLEAN

SpecRunner == InitRunnerFlags /\ [][NextRunner]_vars

\* the evaluator process keeps running: every call it makes returns or raises
FairSpecRunner == SpecRunner /\ WF_vars(NextRunner)

\* the evaluator started with --continuous
NextContinuous == Main_continuous \/ Loop_head \/ GoNext \/ Loop_sleep

InitContinuous ==
    /\ InitHandshake /\ envName /\ envStep
    /\ InitTransitions /\ InitLibrary /\ InitArtefacts /\ InitRunner
    /\ fs = {}
    /\ continuous = TRUE
    /\ do_pull = TRUE /\ do_upload = TRUE /\ delete = TRUE

SpecContinuous == InitContinuous /\ [][NextContinuous]_vars


\* ---------------------------------------------------------------------------
\* ChallengeInterfaceEvaluatorConcrete.set_score (cie_concrete.py)
\* ---------------------------------------------------------------------------
ScoreNames == {"score1", "score2"}
\* the values handed to set_score: the Python type ("other" is a number that
\* is not a float instance, such as numpy.float32 or Decimal) and what it holds
ScoreValues ==
    {[type |-> "float", kind |-> "finite", num |-> 1],
     [type |-> "float", kind |-> "finite", num |-> 2],
     [type |-> "float", kind |-> "nan", num |-> 0],
     [type |-> "float", kind |-> "inf", num |-> 0],
     [type |-> "int", kind |-> "finite", num |-> 1],
     [type |-> "other", kind |-> "finite", num |-> 1],
     [type |-> "other", kind |-> "nan", num |-> 0]}

\* the exception set_score raises for these arguments, "none" when it returns
set_score_raises(sc, name, value) ==
    LET isinstance_float == value.type = "float"
        isnan == value.kind = "nan"
        isinf == value.kind = "inf"
    IN  IF isinstance_float /\ (isnan \/ isinf) THEN "ValueError"
        ELSE IF name \in DOMAIN sc THEN "InvalidEvaluator"
        ELSE "none"

\* self.scores after the call (the ReportedScore is kept by its value, which
\* is all after_score reads of it)
set_score(sc, name, value) ==
    IF set_score_raises(sc, name, value) = "none" THEN Put(sc, name, value) ELSE sc

\* the scoring logic calls cie.set_score(name, value)
Set_score ==
    /\ Len(score_calls) < MaxScoreCalls
    /\ \E name \in ScoreNames, value \in ScoreValues :
         /\ score_calls' = Append(score_calls,
                [name |-> name, value |-> value, before |-> scores,
                 raised |-> set_score_raises(scores, name, value),
                 after |-> set_score(scores, name, value)])
         /\ scores' = set_score(scores, name, value)
    /\ UNCHANGED <<epc, eexc, parameters, challenge_files, evaluation_files,
                   e_out, e_elapsed, e_sleep, e_pollSaw, e_phases, e_seenFiles,
                   scoreInvoked>>
    /\ UNCHANGED <<envName, envStep, svars, fvars, unitTicks, wroteLate, ctvars, xvars>>
    /\ UNCHANGED <<eq_calls, parse_calls, o_status, lvars>>

NextSetScore == Set_score

\* the library is used with the environment fully set
InitCalls == Init /\ envName /\ envStep

SpecSetScore == InitCalls /\ [][NextSetScore]_vars

\* ---------------------------------------------------------------------------
\* ServiceDefinition (challenge.py)
\* ---------------------------------------------------------------------------
SUBMISSION_CONTAINER_TAG == "SUBMISSION_CONTAINER"

ServiceDefinition(image, environment, image_digest, build) ==
    [image |-> image, environment |-> environment, image_digest |-> image_digest,
     build |-> build]

Images == {SUBMISSION_CONTAINER_TAG, "img:tag"}
Environments == {EmptyDict, Dict1("var", "x")}
\* a digest string is kept under its algorithm name
ImageDigests == {None, [sha256 |-> "a"], [sha256 |-> "b"]}
\* the service definitions two challenge descriptions may be compared on
ServiceDefinitions ==
    {ServiceDefinition(i, e, g, None) :
        i \in Images, e \in Environments, g \in ImageDigests}

\* self.equivalent(other): the exception raised, "none" when it returns
ServiceDefinition_equivalent(self, other) ==
    IF /\ self.image # SUBMISSION_CONTAINER_TAG
       /\ \/ self.image_digest = None
          \/ other.image_digest = None
          \/ self.image_digest # other.image_digest
    THEN "NotEquivalent"
    ELSE IF self.environment # other.environment THEN "NotEquivalent"
    ELSE "none"

\* a caller compares two service definitions
Service_equivalent ==
    /\ Len(eq_calls) < MaxEquivalentCalls
    /\ \E a \in ServiceDefinitions, b \in ServiceDefinitions :
         eq_calls' = Append(eq_calls,
             [self |-> a, other |-> b, raised |-> ServiceDefinition_equivalent(a, b)])
    /\ UNCHANGED <<score_calls, parse_calls, o_status, lvars, hvars, ctvars, xvars>>

NextEquivalent == Service_equivalent

SpecEquivalent == InitCalls /\ [][NextEquivalent]_vars

\* ---------------------------------------------------------------------------
\* reading a challenge description (challenge.py)
\* ---------------------------------------------------------------------------
\* YAML data: a mapping is a function on its keys, a list is wrapped, None is
\* null, and Scalar is a string found where a mapping or a list is expected
YamlList(items) == [py_list |-> items]
Scalar == [py_str |-> <<"text">>]
isinstance_dict(x) == DOMAIN x \cap {"py_None", "py_absent", "py_str", "py_list"} = {}
\* d after d.pop(k), and the blocks made of some of the keys of a full block
Popped(d, k) == [x \in DOMAIN d \ {k} |-> d[x]]
SubBlocks(full, keys) == {[k \in K |-> f[k]] : f \in full, K \in SUBSET keys}

\* the outcome of a from_yaml call
Parsed(v) == [raised |-> "none", why |-> "", value |-> v]
Rejected(cls, why) == [raised |-> cls, why |-> why, value |-> None]
\* utils.wrap_config_reader: whatever the reader raises becomes InvalidConfiguration
wrap_config_reader(r) ==
    IF r.raised = "none" THEN r ELSE Rejected("InvalidConfiguration", r.why)

\* a reader of build blocks that lets any key pass
Build_from_yaml_AnyKeys(d0) ==
    IF ~isinstance_dict(d0) THEN Rejected("ValueError", "Expected dict")
    ELSE Parsed([context |-> ".", dockerfile |-> "Dockerfile", args |-> EmptyDict])

Build_from_yaml(d0) ==
    IF ~isinstance_dict(d0) THEN Rejected("ValueError", "Expected dict")
    ELSE LET d == Popped(Popped(Popped(d0, "context"), "dockerfile"), "args")
         IN  IF d # EmptyDict THEN Rejected("ValueError", "Extra fields")
             ELSE Parsed([context |-> IF "context" \in DOMAIN d0 THEN d0.context ELSE ".",
                          dockerfile |-> "Dockerfile", args |-> EmptyDict])

\* the service blocks read: any subset of the keys, values of the right type
ServiceBlocks ==
    LET BuildBlocks == {None, Scalar, EmptyDict, [context |-> "dir"],
                        [context |-> "dir", target |-> "x"]}
    IN
    {None} \cup SubBlocks([image : Images, container : {"c:tag"},
                           environment : {None, Dict1("var", "x")},
                           build : BuildBlocks,
                           image_digest : {[sha256 |-> "a"]}, ports : {"80"}],
                          {"image", "container", "environment", "build",
                           "image_digest", "ports"})

ServiceDefinition_from_yaml(d0) ==
    wrap_config_reader(
        IF ~isinstance_dict(d0) THEN Rejected("ValueError", "Expected dict")
        ELSE IF "image" \notin DOMAIN d0 /\ "container" \notin DOMAIN d0
        THEN Rejected("ValueError", "Need parameter image")
        ELSE
          LET image == IF "image" \in DOMAIN d0 THEN d0.image ELSE d0.container
              d1 == IF "image" \in DOMAIN d0 THEN Popped(d0, "image")
                    ELSE Popped(d0, "container")
              environment == IF "environment" \notin DOMAIN d1 THEN EmptyDict
                             ELSE IF d1.environment = None THEN EmptyDict
                             ELSE d1.environment
              build == IF "build" \notin DOMAIN d1 THEN Parsed(None)
                       ELSE IF d1.build = None THEN Parsed(None)
                       ELSE Build_from_yaml(d1.build)
              image_digest == IF "image_digest" \in DOMAIN d1 THEN d1.image_digest
                              ELSE None
              d == Popped(Popped(Popped(d1, "environment"), "build"), "image_digest")
          IN  IF build.raised # "none" THEN build
              ELSE IF d # EmptyDict THEN Rejected("ValueError", "Extra fields")
              ELSE Parsed(ServiceDefinition(image, environment, image_digest,
                                            build.value)))

\* a caller reads one service block
Parse_service ==
    /\ parse_calls = <<>>
    /\ \E d0 \in ServiceBlocks :
         parse_calls' = Append(parse_calls,
             [fn |-> "ServiceDefinition", data |-> d0,
              result |-> ServiceDefinition_from_yaml(d0)])
    /\ UNCHANGED <<score_calls, eq_calls, o_status, lvars, hvars, ctvars, xvars>>

\* the EvaluationParameters blocks read
EvaluationParametersBlocks ==
    LET ServicesBlocks ==
            {None, EmptyDict,
             Dict1("evaluator", [image |-> "img:tag"]),
             Dict1("solution", [image |-> SUBMISSION_CONTAINER_TAG, ports |-> "80"]),
             [evaluator |-> [image |-> "img:tag"], solution |-> [build |-> EmptyDict]]}
    IN
    {None} \cup SubBlocks([services : ServicesBlocks, version : {"3"}, volumes : {"v"}],
                          {"services", "version", "volumes"})

EvaluationParameters_from_yaml(d0) ==
    wrap_config_reader(
        IF ~isinstance_dict(d0) THEN Rejected("ValueError", "Expected dict")
        ELSE IF "services" \notin DOMAIN d0 THEN Rejected("KeyError", "services")
        ELSE IF ~isinstance_dict(d0.services) THEN Rejected("ValueError", "Expected dict")
        ELSE IF d0.services = EmptyDict THEN Rejected("ValueError", "No services described.")
        ELSE
          LET services == [k \in DOMAIN d0.services |->
                              ServiceDefinition_from_yaml(d0.services[k])]
              failed == {k \in DOMAIN services : services[k].raised # "none"}
              d == Popped(Popped(d0, "services"), "version")
          IN  IF failed # {} THEN services[CHOOSE k \in failed : TRUE]
              ELSE IF d # EmptyDict THEN Rejected("ValueError", "Invalid fields")
              ELSE Parsed([version |-> "3",
                           services |-> [k \in DOMAIN services |-> services[k].value]]))

Score_from_yaml(d0) ==
    IF ~isinstance_dict(d0) THEN Rejected("InvalidChallengeDescription", "Expected dict")
    ELSE IF "name" \notin DOMAIN d0
    THEN Rejected("InvalidChallengeDescription", "Missing config")
    ELSE IF Popped(Popped(Popped(d0, "name"), "description"), "order") # EmptyDict
    THEN Rejected("InvalidChallengeDescription", "Extra keys in configuration file")
    ELSE LET order == IF "order" \in DOMAIN d0 THEN d0.order ELSE "ascending"
         IN  IF order \notin {"ascending", "descending"}
             THEN Rejected("AssertionError", "order")
             ELSE Parsed([name |-> d0.name, description |-> None, order |-> order])

\* the scoring blocks read: with and without entries
ScoringBlocks ==
    LET ScoreBlocks ==
            {None, EmptyDict, [name |-> "score1"],
             [name |-> "score1", order |-> "descending"],
             [name |-> "score1", order |-> "sideways"], [name |-> "score1", unit |-> "m"]}
    IN
    {None} \cup
    SubBlocks([scores : {None, YamlList(<<>>)}
                          \cup {YamlList(<<b>>) : b \in ScoreBlocks}
                          \cup {YamlList(<<[name |-> "score1"], b>>) : b \in ScoreBlocks},
               weights : {"w"}],
              {"scores", "weights"})

Scoring_from_yaml(d0) ==
    IF ~isinstance_dict(d0) THEN Rejected("InvalidChallengeDescription", "Expected dict")
    ELSE IF "scores" \notin DOMAIN d0
    THEN Rejected("InvalidChallengeDescription", "Missing config")
    ELSE IF DOMAIN d0.scores # {"py_list"}
    THEN Rejected("InvalidChallengeDescription", "Expected list")
    ELSE
      LET items == d0.scores.py_list
          read == [i \in DOMAIN items |-> Score_from_yaml(items[i])]
          failed == {i \in DOMAIN read : read[i].raised # "none"}
      IN  IF failed # {} THEN read[CHOOSE i \in failed : \A j \in failed : i <= j]
          ELSE IF Popped(d0, "scores") # EmptyDict
          THEN Rejected("InvalidChallengeDescription", "Extra keys in configuration file")
          ELSE Parsed([scores |-> [i \in DOMAIN read |-> read[i].value]])

\* ChallengeDescription.from_yaml on a description whose other keys are present
\* and valid: the evaluation_parameters block of its one step, then the
\* scoring block
ChallengeDescription_from_yaml(d0) ==
    wrap_config_reader(
        LET step == EvaluationParameters_from_yaml(d0.evaluation_parameters)
            scoring == Scoring_from_yaml(d0.scoring)
        IN  IF step.raised # "none" THEN step
            ELSE IF scoring.raised # "none" THEN scoring
            ELSE Parsed([steps |-> Dict1("step1", step.value), scoring |-> scoring.value]))

\* a caller reads a challenge description
Parse_description ==
    /\ parse_calls = <<>>
    /\ \E ep \in EvaluationParametersBlocks, sc \in ScoringBlocks :
         LET d0 == [evaluation_parameters |-> ep, scoring |-> sc] IN
         parse_calls' = Append(parse_calls,
             [fn |-> "ChallengeDescription", data |-> d0,
              result |-> ChallengeDescription_from_yaml(d0)])
    /\ UNCHANGED <<score_calls, eq_calls, o_status, lvars, hvars, ctvars, xvars>>

NextParse == Parse_service \/ Parse_description

SpecParse == InitCalls /\ [][NextParse]_vars

\* ---------------------------------------------------------------------------
\* get_config (runner.py)
\* ---------------------------------------------------------------------------
\* the names imported from .constants, kept as the names themselves
ENV_CHALLENGE_NAME == "ENV_CHALLENGE_NAME"
ENV_CHALLENGE_STEP_NAME == "ENV_CHALLENGE_STEP_NAME"
SessionDirs ==
    << "CHALLENGE_SOLUTION_OUTPUT_DIR", "CHALLENGE_RESULTS_DIR", "CHALLENGE_DESCRIPTION_DIR",
       "CHALLENGE_EVALUATION_OUTPUT_DIR", "CHALLENGE_PREVIOUS_STEPS_DIR" >>

\* './' + dir + ':' + '/' + dir, for the five directories in order
volumes == [i \in DOMAIN SessionDirs |-> <<"./", SessionDirs[i], ":", "/", SessionDirs[i]>>]

\* ServiceDefinition.as_dict: the build key only for a build that is set
ServiceDefinition_as_dict(self) ==
    LET res == [image |-> self.image, environment |-> self.environment,
                image_digest |-> self.image_digest]
    IN  IF self.build # None THEN Put(res, "build", self.build) ELSE res

\* a get_config that leaves the image_digest key in the service
StripKeys_BuildOnly(service) == Popped(service, "build")

\* service.pop('image_digest', None); service.pop('build', None)
StripKeys(service) == Popped(Popped(service, "image_digest"), "build")

\* dict.update (the uid is kept as its decimal text)
Update(d, e) == [k \in DOMAIN d \cup DOMAIN e |-> IF k \in DOMAIN e THEN e[k] ELSE d[k]]

\* get_config: the configuration returned, or the failed assert
get_config(challenge_parameters_, solution_container, challenge_name, challenge_step_name, UID, USERNAME) ==
    LET service_defs ==
            [k \in DOMAIN challenge_parameters_.services |->
                [challenge_parameters_.services[k] EXCEPT
                    !.build = None,
                    !.image = IF @ = SUBMISSION_CONTAINER_TAG
                              THEN solution_container ELSE @]]
        config == [version |-> challenge_parameters_.version,
                   services |-> [k \in DOMAIN service_defs |->
                                    ServiceDefinition_as_dict(service_defs[k])]]
        stripped == [k \in DOMAIN config.services |-> StripKeys(config.services[k])]
        extra_environment ==
            Put(Put(Put(Dict1("username", USERNAME), "uid", UID),
                    ENV_CHALLENGE_NAME, challenge_name),
                ENV_CHALLENGE_STEP_NAME, challenge_step_name)
        updated == [k \in DOMAIN stripped |->
                       [stripped[k] EXCEPT !.environment = Update(@, extra_environment)]]
        networks_evaluator == Dict1("evaluation", [aliases |-> <<"evaluation">>])
        services == [k \in DOMAIN updated |->
                        Put(Put(updated[k], "volumes", volumes),
                            "networks", networks_evaluator)]
    IN  IF \E k \in DOMAIN updated : "volumes" \in DOMAIN updated[k]
        THEN Rejected("AssertionError", "volumes")
        ELSE Parsed([version |-> config.version, services |-> services,
                     networks |-> Dict1("evaluation", None)])

\* go_ resolves the configuration of a step: the parameters are what
\* EvaluationParameters.from_yaml builds, with one or two services
Get_config ==
    /\ config_calls = <<>>
    /\ LET Defs == {ServiceDefinition(i, e, g, b) :
                      i \in Images,
                      e \in Environments \cup {Dict1(ENV_CHALLENGE_NAME, "other")},
                      g \in {None, [sha256 |-> "a"]},
                      b \in {None, [context |-> ".", dockerfile |-> "Dockerfile",
                                    args |-> EmptyDict]}}
           Services == UNION {[K -> Defs] : K \in SUBSET {"evaluator", "solution"} \ {{}}}
       IN  \E services \in Services, solution_container \in {"sub@sha256:c"},
              UID \in {"0", "1000"} :
             LET params == [version |-> "3", services |-> services] IN
             config_calls' = Append(config_calls,
                 [params |-> params, solution_container |-> solution_container,
                  challenge_name |-> "challenge1", challenge_step_name |-> "step1",
                  result |-> get_config(params, solution_container, "challenge1",
                                        "step1", UID, "user")])
    /\ UNCHANGED <<image_calls, pvars, mkvars, hvars, ctvars, xvars>>

NextGetConfig == Get_config

SpecGetConfig == InitCalls /\ [][NextGetConfig]_vars

\* ---------------------------------------------------------------------------
\* d8n_mkdirs_thread_safe, d8n_make_sure_dir_exists (utils.py)
\* ---------------------------------------------------------------------------
\* a path is the sequence of its components, '' the empty sequence
Threads == 1..MaxThreads
DirPaths == {<<"a">>, <<"a", "b">>, <<"a", "b", "c">>, <<"a", "d">>}
\* os.path.split(dst)[0] and os.path.dirname(filename)
split_head(dst) == SubSeq(dst, 1, Len(dst) - 1)
\* a file system holds a directory only below its parent
Consistent(dirs) == \A d \in dirs : split_head(d) = <<>> \/ split_head(d) \in dirs

\* os.mkdir: the errno of the OSError raised, 0 when the directory is made
os_mkdir(dirs, dst) ==
    IF dst \in dirs THEN 17
    ELSE IF split_head(dst) # <<>> /\ split_head(dst) \notin dirs THEN 2
    ELSE 0

\* an except clause that lets the 'file exists' error through
Reraised_Always(errno) == errno # 0

\* except OSError as err: if err.errno != 17: raise
Reraised(errno) == errno # 0 /\ errno # 17

Frame(dst, pc) == [dst |-> dst, pc |-> pc]
Top(t) == mk_stack[t][Len(mk_stack[t])]
\* the frame on top returns: the call has ended when it was the only one
Return(t, dirs) ==
    /\ mk_stack' = [mk_stack EXCEPT ![t] = SubSeq(@, 1, Len(@) - 1)]
    /\ mk_done' = IF Len(mk_stack[t]) = 1
                  THEN [mk_done EXCEPT ![t].state = "returned",
                                       ![t].exists = (mk_done[t].dst \in dirs)]
                  ELSE mk_done

\* a thread calls d8n_mkdirs_thread_safe(dst)
Mk_call(t) ==
    /\ mk_done[t].state = "idle"
    /\ \E dst \in DirPaths \cup {<<>>} :
         /\ mk_stack' = [mk_stack EXCEPT ![t] = <<Frame(dst, "check")>>]
         /\ mk_done' = [mk_done EXCEPT ![t] = [state |-> "running", dst |-> dst,
                                               exists |-> FALSE]]
    /\ UNCHANGED <<fs, config_calls, image_calls, pvars, hvars, ctvars, xvars>>

\* a thread calls d8n_make_sure_dir_exists(filename) for a file in dst: the
\* directories are made only when dirname is not '' and does not exist
Mk_make_sure(t) ==
    /\ mk_done[t].state = "idle"
    /\ \E dirname \in DirPaths \cup {<<>>} :
         IF dirname # <<>> /\ dirname \notin fs
         THEN /\ mk_stack' = [mk_stack EXCEPT ![t] = <<Frame(dirname, "check")>>]
              /\ mk_done' = [mk_done EXCEPT ![t] = [state |-> "running", dst |-> dirname,
                                                    exists |-> FALSE]]
         ELSE /\ mk_done' = [mk_done EXCEPT ![t] = [state |-> "returned", dst |-> dirname,
                                                    exists |-> (dirname \in fs)]]
              /\ UNCHANGED mk_stack
    /\ UNCHANGED <<fs, config_calls, image_calls, pvars, hvars, ctvars, xvars>>

\* if dst == '' or os.path.exists(dst): return; otherwise the call for head
Mk_check(t) ==
    /\ mk_stack[t] # <<>>
    /\ Top(t).pc = "check"
    /\ IF Top(t).dst = <<>> \/ Top(t).dst \in fs
       THEN Return(t, fs)
       ELSE /\ mk_stack' = [mk_stack EXCEPT ![t] =
                   Append(SubSeq(@, 1, Len(@) - 1), Frame(Top(t).dst, "mkdir"))
                   \o <<Frame(split_head(Top(t).dst), "check")>>]
            /\ UNCHANGED mk_done
    /\ UNCHANGED <<fs, config_calls, image_calls, pvars, hvars, ctvars, xvars>>

\* os.mkdir(dst, mode) and the except clause: an error that is raised again
\* leaves every frame of the call
Mk_mkdir(t) ==
    /\ mk_stack[t] # <<>>
    /\ Top(t).pc = "mkdir"
    /\ LET errno == os_mkdir(fs, Top(t).dst)
           dirs == IF errno = 0 THEN fs \cup {Top(t).dst} ELSE fs
       IN
       /\ fs' = dirs
       /\ IF Reraised(errno)
          THEN /\ mk_stack' = [mk_stack EXCEPT ![t] = <<>>]
               /\ mk_done' = [mk_done EXCEPT ![t].state = "raised",
                                             ![t].exists = (mk_done[t].dst \in fs)]
          ELSE Return(t, dirs)
    /\ UNCHANGED <<config_calls, image_calls, pvars, hvars, ctvars, xvars>>

NextMkdirs ==
    \E t \in Threads : Mk_call(t) \/ Mk_make_sure(t) \/ Mk_check(t) \/ Mk_mkdir(t)

\* the threads start on a file system that holds any of the directories
InitMkdirs ==
    /\ InitHandshake /\ envName /\ envStep
    /\ InitTransitions /\ InitLibrary /\ InitArtefacts /\ InitRunner /\ DefaultFlags
    /\ fs \in {dirs \in SUBSET DirPaths : Consistent(dirs)}

SpecMkdirs == InitMkdirs /\ [][NextMkdirs]_vars

\* ---------------------------------------------------------------------------
\* get_latest, ServiceDefinition.update_image (challenge.py)
\* ---------------------------------------------------------------------------
\* an image name is the sequence of its parts, separators included
Str(parts) == [py_str |-> parts]
ImageNames ==
    {Str(<<"img">>), Str(<<"img", ":", "tag">>), Str(<<"img", "@", "sha256:a">>),
     Str(<<"img", ":", "tag", "@", "sha256:a">>), Str(<<"reg/img", "@", "sha256:b">>),
     Str(<<"reg/img", ":", "v1">>)}
\* c in s, and s[:s.index(c)]
Contains(s, c) == \E i \in DOMAIN s.py_str : s.py_str[i] = c
UpTo(s, c) ==
    LET i == CHOOSE j \in DOMAIN s.py_str :
                 /\ s.py_str[j] = c
                 /\ \A k \in 1..(j - 1) : s.py_str[k] # c
    IN  Str(SubSeq(s.py_str, 1, i - 1))

\* get_latest(image_name): found is the id of the image that the docker client
\* has under that name, None when it has none; a bare return gives None
get_latest(image_name, found) ==
    IF Contains(image_name, "@") THEN Parsed(None)
    ELSE IF found = None THEN Rejected("ImageNotFound", "images.get")
    ELSE LET image_name_no_tag == IF Contains(image_name, ":")
                                  THEN UpTo(image_name, ":") ELSE image_name
         IN  Parsed(Str(image_name_no_tag.py_str \o <<"@">> \o found.py_str))

\* self.image = get_latest(self.image): the service afterwards
update_image(self, found) ==
    LET latest == get_latest(self.image, found)
    IN  IF latest.raised # "none" THEN [raised |-> latest.raised, self |-> self]
        ELSE [raised |-> "none", self |-> [self EXCEPT !.image = latest.value]]

\* a caller updates the image of a service
Update_image ==
    /\ image_calls = <<>>
    /\ \E image \in ImageNames, e \in Environments, g \in ImageDigests,
          found \in {None, Str(<<"sha256:x">>), Str(<<"sha256:y">>)} :
         LET self == ServiceDefinition(image, e, g, None) IN
         image_calls' = Append(image_calls,
             [self |-> self, found |-> found, result |-> update_image(self, found)])
    /\ UNCHANGED <<config_calls, pvars, mkvars, hvars, ctvars, xvars>>

NextUpdateImage == Update_image

SpecUpdateImage == InitCalls /\ [][NextUpdateImage]_vars

\* =========================================================================
\*                               properties
\* =========================================================================
Range(f) == {f[i] : i \in DOMAIN f}
EvaluatorEnded == epc = "done"
\* the record in the results file, once one was written
Record == results[Len(results)]
AllPhases == {"prepare", "wait", "score", "after_score"}

\* C1: when wrap_evaluator has ended, the status of the record it wrote is
\* FAILED if the failure it caught is InvalidSubmission, ERROR if it is
\* InvalidEvaluator, InvalidEnvironment or any other exception, and SUCCESS
\* only if no failure was caught and preparation, waiting, scoring and score
\* finalization all completed.
C1_StatusByFailureClass ==
    (EvaluatorEnded /\ Len(results) > 0) =>
        /\ eexc.cls = "InvalidSubmission" => Record.status = "FAILED"
        /\ eexc.cls \in {"InvalidEvaluator", "InvalidEnvironment", "Other"}
              => Record.status = "ERROR"
        /\ eexc.cls = "none" => Record.status = "SUCCESS"
        /\ Record.status = "SUCCESS" => (eexc.cls = "none" /\ e_phases = AllPhases)
        /\ Record.status \in {"SUCCESS", "FAILED", "ERROR"}

\* an environment failure reported by the solution side ended the evaluator
C1_Witness ==
    /\ EvaluatorEnded
    /\ eexc.cls = "InvalidEnvironment"
    /\ eexc.origin = "output"
    /\ Record.status = "ERROR"

\* C2: the ChallengeResults record is never written twice, and wrap_evaluator
\* has ended exactly when the record has been written once, whichever exit
\* path (success or a failure in any phase) was taken.
C2_ResultsWrittenExactlyOnce ==
    /\ Len(results) <= 1
    /\ EvaluatorEnded <=> Len(results) = 1

\* the evaluator ended on an unclassified exception of the scoring logic
C2_Witness ==
    /\ EvaluatorEnded
    /\ eexc.cls = "Other"
    /\ eexc.origin = "score"
    /\ Len(results) = 1

SolutionFinalizing == spc \in {"finally_yaml", "finally_files", "done"}
SolutionWroteYaml == spc \in {"finally_files", "done"}
\* the except branch around evaluator.prepare ran: it set the abort parameters
PrepareThrew ==
    /\ parameters # None
    /\ SPECIAL_ABORT \in DOMAIN parameters
    /\ parameters[SPECIAL_ABORT][1] = "Preparation aborted:"
SolutionReadAbort == s_parameters # None /\ SPECIAL_ABORT \in DOMAIN s_parameters

\* C3 (as stated): when the preparation logic threw, the evaluator terminates
\* only after it has read the solution's output mapping with the
\* evaluator-failure marker back in AwaitingSolution.
C3_EvaluatorReadsMarkerBack ==
    (EvaluatorEnded /\ PrepareThrew) =>
        /\ "wait" \in e_phases
        /\ e_out # None
        /\ SPECIAL_INVALID_EVALUATOR \in DOMAIN e_out

\* C3 (amended): when the preparation logic throws, the evaluator persists the
\* abort marker and then terminates without waiting for or reading the
\* solution output, its status that of the fault's class and its message
\* naming the preparation fault; a solution that reads the abort marker raises
\* InvalidEvaluator without invoking run logic and writes the
\* evaluator-failure marker into its output mapping.
C3_PrepareFaultHandshake ==
    /\ (PrepareThrew /\ epc \in {"except", "done"}) =>
          /\ descYaml # Absent
          /\ SPECIAL_ABORT \in DOMAIN descYaml
          /\ "wait" \notin e_phases
          /\ e_out = None
    /\ (PrepareThrew /\ EvaluatorEnded) =>
          /\ eexc.origin = "prepare"
          /\ Len(results) = 1
          /\ Record.status = (IF eexc.cls = "InvalidSubmission" THEN "FAILED" ELSE "ERROR")
          /\ "prepare fault" \in Range(Record.msg)
    /\ (SolutionReadAbort /\ spc # "get_challenge_parameters") =>
          /\ ~runInvoked
          /\ sexc.cls = "InvalidEvaluator"
          /\ SolutionFinalizing => SPECIAL_INVALID_EVALUATOR \in DOMAIN solution_output_dict
          /\ SolutionWroteYaml => SPECIAL_INVALID_EVALUATOR \in DOMAIN solYaml

\* both sides ended after a preparation fault, the solution having seen the
\* abort marker
C3_Witness ==
    /\ EvaluatorEnded
    /\ PrepareThrew
    /\ eexc.cls = "Other"
    /\ spc = "done"
    /\ SolutionReadAbort
    /\ SPECIAL_INVALID_EVALUATOR \in DOMAIN solYaml

\* C4 (as stated): if the solution-output file did not appear within the
\* timeout after preparation (it was written later or never), the evaluator
\* ends with a FAILED record whose message names the timeout.
C4_LateFileMeansFailed ==
    (EvaluatorEnded /\ "prepare" \in e_phases /\ (wroteLate \/ solYaml = Absent)) =>
        /\ Record.status = "FAILED"
        /\ "Timeout" \in Range(Record.msg)

\* C4 (amended): the timeout is raised only at a poll that found the file
\* absent more than TIMEOUT_SOLUTION seconds after the wait began; it is
\* classified InvalidSubmission, ends the polling without scoring, and the
\* record is FAILED with a message naming the timeout; an evaluator that ends
\* while the file was never written ended this way.
C4_TimeoutAtPollWithoutFile ==
    /\ epc = "wait_timeout" => ~e_pollSaw
    /\ eexc.origin = "wait" =>
          /\ ~e_pollSaw
          /\ e_elapsed > TIMEOUT_SOLUTION
          /\ eexc.cls = "InvalidSubmission"
          /\ epc \in {"except", "done"}
          /\ ~scoreInvoked
    /\ (eexc.origin = "wait" /\ EvaluatorEnded) =>
          /\ Record.status = "FAILED"
          /\ "Timeout" \in Range(Record.msg)
    /\ (EvaluatorEnded /\ "prepare" \in e_phases /\ solYaml = Absent) =>
          eexc.origin = "wait"

\* the evaluator ended on the timeout while the solution was still running
C4_Witness ==
    /\ EvaluatorEnded
    /\ eexc.origin = "wait"
    /\ solYaml = Absent
    /\ spc = "run"
    /\ Record.status = "FAILED"

\* C5: every execution of wrap_solution eventually ends with the
\* solution-output file written, holding a mapping, and every registered
\* output file written.
C5_SolutionAlwaysWrites ==
    <>(/\ spc = "done"
       /\ solYaml # Absent
       /\ solYaml # None
       /\ solution_output_files \subseteq solFiles)

\* the solution ended after timing out on the preparation, its file written
C5_Witness ==
    /\ spc = "done"
    /\ sexc.origin = "wait"
    /\ solYaml # Absent
    /\ solYaml # None

\* C6: once the evaluator has observed the solution-output file, every output
\* file the solution registered is already in the solution-output area.
C6_FilesWrittenBeforeObserved ==
    e_pollSaw => solution_output_files \subseteq solFiles

\* C7: a failure classified by wrap_solution is written under its marker key,
\* and an evaluator that has read the mapping raised the same class, so its
\* record is FAILED exactly for InvalidSubmission and ERROR for the other two.
C7_FailureSurvivesHop ==
    /\ (SolutionFinalizing /\ sexc.cls # "none") =>
          /\ sexc.cls \in ClassifiedFailures
          /\ sexc.cls = "InvalidEnvironment"
                => DOMAIN solution_output_dict = {SPECIAL_INVALID_ENVIRONMENT}
          /\ sexc.cls = "InvalidEvaluator"
                => DOMAIN solution_output_dict = {SPECIAL_INVALID_EVALUATOR}
          /\ sexc.cls = "InvalidSubmission"
                => DOMAIN solution_output_dict = {SPECIAL_INVALID_SUBMISSION}
          /\ SolutionWroteYaml => solYaml = solution_output_dict
    /\ (e_out # None /\ sexc.cls # "none") =>
          /\ eexc.cls = sexc.cls
          /\ eexc.origin = "output"
          /\ EvaluatorEnded =>
                Record.status = (IF sexc.cls = "InvalidSubmission" THEN "FAILED" ELSE "ERROR")

\* a declared failure of the solution reached the evaluator's record
C7_Witness ==
    /\ EvaluatorEnded
    /\ e_out # None
    /\ sexc.cls = "InvalidSubmission"
    /\ sexc.origin = "declared"
    /\ Record.status = "FAILED"

\* C8: whenever preparation failed (the logic raised, or ended without
\* parameters), the parameters file with the abort marker is on disk before
\* the failure reaches the except clauses.
C8_AbortMarkerPersisted ==
    (epc \in {"except", "done"} /\ eexc.origin \in {"prepare", "after_prepare"}) =>
        /\ descYaml # Absent
        /\ SPECIAL_ABORT \in DOMAIN descYaml

\* C9: run logic is invoked only with the challenge and step names present,
\* the parameters file seen, and no abort marker in the parameters read; a
\* missing name is classified InvalidEnvironment, a timeout or an abort marker
\* InvalidEvaluator, and in these cases run logic is not invoked.
C9_RunOnlyAfterChecks ==
    /\ runInvoked =>
          /\ envName /\ envStep
          /\ s_pollSaw
          /\ s_parameters # None
          /\ SPECIAL_ABORT \notin DOMAIN s_parameters
    /\ (spc # "identity" /\ ~(envName /\ envStep)) =>
          (sexc.origin = "identity" /\ sexc.cls = "InvalidEnvironment" /\ ~runInvoked)
    /\ sexc.origin = "wait" =>
          (sexc.cls = "InvalidEvaluator" /\ ~s_pollSaw /\ ~runInvoked)
    /\ (SolutionReadAbort /\ spc # "get_challenge_parameters") =>
          (sexc.origin = "abort" /\ sexc.cls = "InvalidEvaluator" /\ ~runInvoked)
    /\ sexc.origin \in {"identity", "wait", "abort"} => spc \in {"except"} \cup {"finally_yaml", "finally_files", "done"}

\* the solution ended on the abort marker without invoking run logic
C9_Witness ==
    /\ spc = "done"
    /\ sexc.origin = "abort"
    /\ ~runInvoked

\* ---------------------------------------------------------- get_next_steps
Called == ct_state = "called"
FiresAt(i) ==
    /\ transitions[i][1] \in DOMAIN g_status
    /\ g_status[transitions[i][1]] = transitions[i][2]
TerminalFiresAt(i) == FiresAt(i) /\ transitions[i][3] \in {"SUCCESS", "FAILED", "ERROR"}
TerminalsFired == {i \in 1..Len(transitions) : TerminalFiresAt(i)}
FirstTerminalFired == CHOOSE i \in TerminalsFired : \A j \in TerminalsFired : i <= j
LowerCased == [SUCCESS |-> "success", FAILED |-> "failed", ERROR |-> "error"]
ExampleGraph ==
    << <<"START", "success", "s1">>,
       <<"s1", "success", "SUCCESS">>,
       <<"s1", "failed", "FAILED">> >>

\* C10: a call of get_next_steps that returns, on a status map under which
\* some transition with a terminal target fires, returns finished, the
\* lower-cased target of the first such transition in declaration order, and
\* an empty activation list; on the example graph the status
\* {START: success, s1: success} gives (True, success, []) and
\* {START: success, s1: failed} gives (True, failed, []).
C10_FirstTerminalWins ==
    Called =>
        /\ (g_result.raised = "none" /\ TerminalsFired # {}) =>
              /\ g_result.finished
              /\ g_result.outcome = LowerCased[transitions[FirstTerminalFired][3]]
              /\ g_result.to_activate = <<>>
        /\ (transitions = ExampleGraph
              /\ g_status = [k \in {"START", "s1"} |-> "success"]) =>
              g_result = [raised |-> "none", finished |-> TRUE, outcome |-> "success",
                          to_activate |-> <<>>]
        /\ (transitions = ExampleGraph
              /\ g_status = [k \in {"START", "s1"} |->
                                IF k = "START" THEN "success" ELSE "failed"]) =>
              g_result = [raised |-> "none", finished |-> TRUE, outcome |-> "failed",
                          to_activate |-> <<>>]

\* a step was accumulated, then two terminal transitions fire; the first wins
C10_Witness ==
    /\ Called
    /\ transitions = << <<"START", "success", "s2">>,
                        <<"s1", "success", "FAILED">>,
                        <<"s1", "success", "SUCCESS">> >>
    /\ g_status = [k \in {"START", "s1"} |-> "success"]
    /\ g_result.finished
    /\ g_result.outcome = "failed"
    /\ g_result.to_activate = <<>>

\* the status map of a freshly submitted job
OnlyStart == [k \in {"START"} |-> "success"]
\* the transitions leaving START on success, in declaration order
StartFired == SelectSeq(transitions, LAMBDA t : t[1] = "START" /\ t[2] = "success")
StartTargets == [i \in 1..Len(StartFired) |-> StartFired[i][3]]
StartTerminals == {i \in 1..Len(StartFired) : StartFired[i][3] \in {"SUCCESS", "FAILED", "ERROR"}}

\* C11 (as stated): on every constructed graph, the status map {START: success}
\* makes get_next_steps return finished=false together with the targets of the
\* transitions that leave START on success.
C11_OnlyStartNeverFinished ==
    (Called /\ g_status = OnlyStart) =>
        g_result = [raised |-> "none", finished |-> FALSE, outcome |-> "None",
                    to_activate |-> StartTargets]

\* C11 (amended): on every constructed graph, the status map {START: success}
\* makes get_next_steps return without raising; when no transition leaving
\* START on success targets a terminal value it returns finished=false with
\* the targets of those transitions, one entry per transition in declaration
\* order; when one does, it returns finished=true with the lower-cased target
\* of the first such transition and an empty activation list.
C11_OnlyStartActivatesFirstSteps ==
    (Called /\ g_status = OnlyStart) =>
        IF StartTerminals = {}
        THEN g_result = [raised |-> "none", finished |-> FALSE, outcome |-> "None",
                         to_activate |-> StartTargets]
        ELSE LET first == CHOOSE i \in StartTerminals : \A j \in StartTerminals : i <= j
             IN  g_result = [raised |-> "none", finished |-> TRUE,
                             outcome |-> LowerCased[StartFired[first][3]],
                             to_activate |-> <<>>]

\* two transitions leave START on success, around one that does not
C11_Witness ==
    /\ Called
    /\ g_status = OnlyStart
    /\ transitions = << <<"START", "success", "s2">>,
                        <<"s1", "success", "s2">>,
                        <<"START", "success", "s1">> >>
    /\ g_result.raised = "none"
    /\ ~g_result.finished
    /\ g_result.to_activate = <<"s2", "s1">>

AllowedJobStatus == {"success", "failed", "error", "aborted", "host-error", "outdated"}
HasStatus(s) == s \in DOMAIN g_status /\ g_status[s] \in AllowedJobStatus
IsAborted(s) == s \in DOMAIN g_status /\ g_status[s] = "aborted"
FiredTargeting(s) == {i \in 1..Len(transitions) : FiresAt(i) /\ transitions[i][3] = s}
Occurrences(seq, s) == Cardinality({i \in DOMAIN seq : seq[i] = s})

\* C12: in a call of get_next_steps that returns, a step is in the activation
\* list only if a transition targeting it fired and the step has no status
\* entry or the status aborted; a step that has any other job status is never
\* in the list; and when no terminal transition ended the call, a step whose
\* status is aborted is in the list once per fired transition targeting it,
\* exactly like a step without a status entry.
C12_ActivationEligibility ==
    (Called /\ g_result.raised = "none") =>
        \A s \in {"s1", "s2"} :
            /\ s \in Range(g_result.to_activate) =>
                  /\ FiredTargeting(s) # {}
                  /\ ~HasStatus(s) \/ IsAborted(s)
            /\ (HasStatus(s) /\ ~IsAborted(s)) => s \notin Range(g_result.to_activate)
            /\ (~g_result.finished /\ (IsAborted(s) \/ s \notin DOMAIN g_status)) =>
                  Occurrences(g_result.to_activate, s) = Cardinality(FiredTargeting(s))

\* an aborted step is activated again while a step that succeeded is not
C12_Witness ==
    /\ Called
    /\ transitions = << <<"START", "success", "s1">>,
                        <<"START", "success", "s2">> >>
    /\ g_status = [k \in {"START", "s1", "s2"} |->
                      IF k = "s1" THEN "aborted" ELSE "success"]
    /\ g_result.raised = "none"
    /\ g_result.to_activate = <<"s1">>

ValidKey(k) == k = "START" \/ k \in {"s1", "s2"}
RemainingEntries ==
    [k \in {x \in DOMAIN g_status : ValidKey(x) /\ g_status[x] \in AllowedJobStatus}
       |-> g_status[k]]

\* C13: a call of get_next_steps on a status map that has START: success never
\* fails because of invalid entries: each entry with an invalid key or an
\* invalid value (or both) is dropped and the call returns the result computed
\* from the remaining entries.
C13_InvalidEntriesDropped ==
    (Called /\ "START" \in DOMAIN g_status /\ g_status["START"] = "success") =>
        /\ g_result.raised = "none"
        /\ g_result = TransitionLoop(transitions, RemainingEntries, 1, <<>>)

InvalidTransition(t) ==
    \/ t[1] \notin {"START", "s1", "s2"}
    \/ t[3] \notin {"SUCCESS", "FAILED", "ERROR", "s1", "s2"}
    \/ t[2] \notin AllowedJobStatus

\* C14: construction fails (with the assertion error) as soon as the
\* transitions handed to the constructor contain one whose source is neither
\* START nor a declared step, whose target is neither a terminal value nor a
\* declared step, or whose condition is not an allowed job status; so a graph
\* whose construction has not failed holds exactly the transitions handed in,
\* each referencing only START, terminal values and declared steps.
C14_InvalidTransitionFailsConstruction ==
    /\ (\E i \in 1..Len(ct_input) : InvalidTransition(ct_input[i]))
          <=> ct_state = "AssertionError"
    /\ ct_state # "AssertionError" =>
          /\ transitions = ct_input
          /\ \A i \in 1..Len(transitions) : ~InvalidTransition(transitions[i])

\* a valid transition was accepted, then one with an undeclared target failed
C14_Witness ==
    /\ ct_state = "AssertionError"
    /\ ct_input = << <<"START", "success", "s1">>, <<"s1", "success", "zz">> >>
    /\ transitions = << <<"START", "success", "s1">> >>

\* ------------------------------------------------------ download and upload
\* C15: when download_artefacts has fetched from storage an artefact that was
\* missing from the cache and the size of what it fetched differs from the
\* declared size, the call has failed with the integrity error (ValueError)
\* and the cache does not hold the fetched content under the expected digest.
C15_MismatchNeverCached ==
    \A rpath \in DOMAIN d_wd :
        \A a \in ArtefactPool :
            (a.rpath = rpath /\ a.fetch.ok /\ d_wd[rpath] = a.fetch.content
                /\ Len(a.fetch.content) # a.size) =>
                /\ d_pc = "raised"
                /\ d_exc.cls = "ValueError"
                /\ ~(a.sha256hex \in DOMAIN cache /\ cache[a.sha256hex] = a.fetch.content)

DigestKey(content) == <<"by-value", "sha256", compute_sha256hex(content)>>
PutsOf(content) == {i \in DOMAIN puts : puts[i].content = content}

\* C16: every put to storage goes to the key <path_by_value>/sha256/<digest>
\* of the content put, and no content is put twice, in one call or across
\* calls; each file processed by the current call has its content in the local
\* cache under its digest and one record, in the order of the paths, carrying
\* its path and digest and, with storage configured, that key, the object
\* being in storage through exactly one put; a call that returns has produced
\* one record per path.
C16_UploadDeduplicatesByDigest ==
    /\ \A i \in DOMAIN puts : puts[i].key = DigestKey(puts[i].content)
    /\ \A c \in Contents : Cardinality(PutsOf(c)) <= 1
    /\ Len(uploaded) <= Len(u_input)
    /\ \A i \in DOMAIN uploaded :
          LET r == uploaded[i]
              f == u_input[i]
          IN  /\ r.rpath = f.rpath
              /\ r.sha256hex = compute_sha256hex(f.content)
              /\ r.sha256hex \in DOMAIN cache
              /\ cache[r.sha256hex] = f.content
              /\ u_aws =>
                    /\ r.storage = [k \in {"s3"} |-> DigestKey(f.content)]
                    /\ DigestKey(f.content) \in DOMAIN s3
                    /\ s3[DigestKey(f.content)] = f.content
                    /\ Cardinality(PutsOf(f.content)) = 1
              /\ ~u_aws => r.storage = <<>>
    /\ u_pc = "returned" => Len(uploaded) = Len(u_input)

\* a second call has uploaded one content under two paths, after one put
C16_Witness ==
    /\ u_calls = 2
    /\ u_pc = "returned"
    /\ u_aws
    /\ Len(uploaded) = 2
    /\ uploaded[1].rpath # uploaded[2].rpath
    /\ uploaded[1].sha256hex = uploaded[2].sha256hex
    /\ Len(puts) = 1

\* ------------------------------------------------------------------- go_
JobAcquired == job.job_id
GoEnded == r_pc \in {"go_ended", "exit"}
FailedAttempts == {i \in DOMAIN attempts : ~attempts[i].ok}

\* C17: go_ reports the outcome it has determined with bounded retry: every
\* attempt that is followed by another one failed and the next one comes one
\* interval (10 s) later, so no attempt follows a successful one; there are at
\* most ntries + 1 = 6 attempts; and go_ ends by returning normally, after a
\* successful attempt or after six failed ones, never by raising.
C17_BoundedReportRetry ==
    /\ Len(attempts) <= 6
    /\ \A i \in DOMAIN attempts :
          /\ attempts[i].result = cr.status
          /\ attempts[i].result \in {"SUCCESS", "FAILED", "ERROR"}
          /\ i < Len(attempts) =>
                /\ ~attempts[i].ok
                /\ attempts[i + 1].at = attempts[i].at + 10
    /\ waited = 10 * Cardinality(FailedAttempts)
    /\ r_pc = "report" => FailedAttempts = DOMAIN attempts
    /\ (JobAcquired /\ GoEnded) =>
          /\ cycle = "returned"
          /\ attempts # <<>>
          /\ attempts[Len(attempts)].ok \/ Len(attempts) = 6

\* all six attempts failed and go_ returned
C17_Witness ==
    /\ r_pc = "exit"
    /\ cycle = "returned"
    /\ Len(attempts) = 6
    /\ FailedAttempts = 1..6
    /\ waited = 60

\* ------------------------------------------------------ the continuous loop
\* x <= y for multipliers <<numerator, denominator>>
Leq(x, y) == x[1] * y[2] <= y[1] * x[2]
\* the sleep that follows a cycle has been taken
AfterSleep == r_pc = "loop_head" /\ cycle # "none"

\* C18: the multiplier applied to a sleep of the continuous loop never exceeds
\* max_multiplier = 10, that is, no sleep is longer than timeout * 10.
C18_SleepMultiplierCapped == Leq(slept, <<10, 1>>)

\* C19 (as stated): after a cycle that ended with NothingLeft the multiplier
\* used for the sleep is larger than the one the cycle started with, or is at
\* the cap; and the multiplier comes back to 1.0 only after a cycle in which
\* go_ returned.
C19_NothingLeftBacksOff ==
    AfterSleep =>
        /\ cycle = "NothingLeft" =>
              \/ ~Leq(slept, m_before)
              \/ slept = <<10, 1>>
        /\ (slept = <<1, 1>> /\ m_before # <<1, 1>>) => cycle = "returned"

\* C19 (amended): a cycle that ends with NothingLeft applies no backoff, the
\* multiplier used for the following sleep being the one the cycle started with
\* (the previous one cut to max_multiplier at the head of the loop); a cycle
\* that ends with a connectivity failure or another exception multiplies it by
\* 1.5; a cycle in which go_ returns sets it to 1.0, and it comes back to 1.0
\* only after such a cycle.
C19_NothingLeftKeepsMultiplier ==
    AfterSleep =>
        /\ cycle = "NothingLeft" => slept = m_before
        /\ cycle \in {"ConnectionError", "Other"} =>
              slept = <<3 * m_before[1], 2 * m_before[2]>>
        /\ cycle = "returned" => slept = <<1, 1>>
        /\ (slept = <<1, 1>> /\ m_before # <<1, 1>>) => cycle = "returned"
        /\ multiplier = slept

\* after two failures, a cycle with nothing left sleeps with 2.25 again
C19_Witness ==
    /\ AfterSleep
    /\ cycle = "NothingLeft"
    /\ m_before = <<9, 4>>
    /\ slept = <<9, 4>>

\* C20: nothing is pulled or run before the configuration has been validated;
\* when the validation fails, the backend is never asked to pull or run the
\* containers, and the outcome recorded and reported for the job is ERROR with
\* the validation error as message.
C20_InvalidConfigIsReported ==
    /\ ("pull" \in Range(backend) \/ "up" \in Range(backend)) =>
          /\ backend[1] = "config"
          /\ valid_config = "valid"
    /\ valid_config = "invalid" =>
          /\ "pull" \notin Range(backend)
          /\ "up" \notin Range(backend)
          /\ (r_pc \in {"stats", "report", "go_ended", "exit"}) =>
                /\ cr.status = "ERROR"
                /\ cr.msg = "Could not validate Docker Compose configuration"
          /\ \A i \in DOMAIN attempts :
                /\ attempts[i].result = "ERROR"
                /\ attempts[i].stats.msg = "Could not validate Docker Compose configuration"

\* -------------------------------------------------- teardown and reporting
\* C21: the working directory of a job is torn down (the containers brought
\* down) and deleted only after the outcome of the job has been reported: as
\* long as no report attempt has been made, the backend has not been asked to
\* bring the containers down and the directory has not been removed.
C21_TeardownAfterReport ==
    attempts = <<>> =>
        /\ "down" \notin Range(backend)
        /\ wd # "removed"

\* ---------------------------------------------------------------- set_score
\* the calls made so far under this name with a finite value
FiniteCalls(name) ==
    {i \in DOMAIN score_calls :
        score_calls[i].name = name /\ score_calls[i].value.kind = "finite"}

\* C22: set_score rejects a NaN or infinite value, and rejects a name that
\* already has a score (as InvalidEvaluator when the value is acceptable); a
\* rejected call leaves the recorded scores unchanged; so every recorded name
\* maps to the first finite value that was handed in under it.
C22_FirstFiniteScoreKept ==
    /\ \A i \in DOMAIN score_calls :
          LET c == score_calls[i] IN
          /\ c.value.kind \in {"nan", "inf"} => c.raised # "none"
          /\ c.name \in DOMAIN c.before =>
                /\ c.raised # "none"
                /\ c.value.kind = "finite" => c.raised = "InvalidEvaluator"
          /\ c.raised # "none" => c.after = c.before
    /\ \A name \in DOMAIN scores :
          /\ FiniteCalls(name) # {}
          /\ \E i \in FiniteCalls(name) :
                /\ \A j \in FiniteCalls(name) : i <= j
                /\ scores[name] = score_calls[i].value

\* --------------------------------------------------------------- equivalent
\* C23: a call of ServiceDefinition.equivalent accepts (returns without
\* raising NotEquivalent) exactly when the environments are equal and either
\* the image is the submission sentinel or both digests are present and equal;
\* and the answer is the same whichever of the two definitions it is called on.
C23_EquivalentIsSymmetric ==
    /\ \A i \in DOMAIN eq_calls :
          LET c == eq_calls[i] IN
          (c.raised = "none") <=>
              /\ c.self.environment = c.other.environment
              /\ \/ c.self.image = "SUBMISSION_CONTAINER"
                 \/ /\ c.self.image_digest # None
                    /\ c.other.image_digest # None
                    /\ c.self.image_digest = c.other.image_digest
    /\ \A i, j \in DOMAIN eq_calls :
          (eq_calls[i].self = eq_calls[j].other /\ eq_calls[i].other = eq_calls[j].self)
              => eq_calls[i].raised = eq_calls[j].raised

\* ------------------------------------------------------------- from_yaml
\* the calls of one reader
CallsOf(fn) == {i \in DOMAIN parse_calls : parse_calls[i].fn = fn}
Accepted(c) == c.result.raised = "none"
HasKey(d, k) == isinstance_dict(d) /\ k \in DOMAIN d

\* C24: reading a challenge description rejects a scoring block whose list of
\* scores is empty, as it rejects an EvaluationParameters block whose services
\* are empty: no description is constructed with an empty list of scores.
C24_EmptyScoringRejected ==
    \A i \in CallsOf("ChallengeDescription") :
        LET c == parse_calls[i] IN
        /\ (HasKey(c.data.scoring, "scores") /\ c.data.scoring.scores = YamlList(<<>>))
              => ~Accepted(c)
        /\ (HasKey(c.data.evaluation_parameters, "services")
               /\ c.data.evaluation_parameters.services = EmptyDict)
              => ~Accepted(c)
        /\ Accepted(c) => c.result.value.scoring.scores # <<>>

\* the service block names an image, and names a build directive
NamesImage(d) == HasKey(d, "image") \/ HasKey(d, "container")
NamesBuild(d) == HasKey(d, "build") /\ d.build # None
ServiceKeys == {"image", "container", "environment", "build", "image_digest"}
BuildKeys == {"context", "dockerfile", "args"}

\* C25 (as stated): a service block is accepted only if it names exactly one
\* image source, an image or a build directive: with neither it is rejected,
\* with both it is rejected, with a build directive only it is accepted, and
\* an unrecognized key is a parse error.
C25_ExactlyOneImageSource ==
    \A i \in CallsOf("ServiceDefinition") :
        LET c == parse_calls[i] IN
        /\ Accepted(c) => (NamesImage(c.data) /\ ~NamesBuild(c.data))
                             \/ (~NamesImage(c.data) /\ NamesBuild(c.data))
        /\ (isinstance_dict(c.data) /\ DOMAIN c.data = {"build"}
               /\ isinstance_dict(c.data.build) /\ DOMAIN c.data.build \subseteq BuildKeys)
              => Accepted(c)
        /\ (isinstance_dict(c.data) /\ ~(DOMAIN c.data \subseteq ServiceKeys))
              => ~Accepted(c)

\* C25 (amended): a service block is accepted exactly when it is a mapping
\* that names an image (under image, or under container when there is no
\* image key), has no other key than environment, build and image_digest, and
\* whose build directive, if it has one, is a mapping of context, dockerfile
\* and args only; so a block with a build directive only is rejected for its
\* missing image, a block with an image and a build directive is accepted and
\* keeps both, and every rejection is an InvalidConfiguration.
C25_ImageRequiredBuildOptional ==
    \A i \in CallsOf("ServiceDefinition") :
        LET c == parse_calls[i]
            d == c.data
        IN
        /\ Accepted(c) <=>
              /\ isinstance_dict(d)
              /\ NamesImage(d)
              /\ ~(HasKey(d, "image") /\ HasKey(d, "container"))
              /\ DOMAIN d \subseteq ServiceKeys
              /\ NamesBuild(d) =>
                    /\ isinstance_dict(d.build)
                    /\ DOMAIN d.build \subseteq BuildKeys
        /\ ~Accepted(c) => c.result.raised = "InvalidConfiguration"
        /\ (isinstance_dict(d) /\ ~NamesImage(d)) => c.result.why = "Need parameter image"
        /\ Accepted(c) =>
              /\ c.result.value.image = (IF HasKey(d, "image") THEN d.image ELSE d.container)
              /\ NamesBuild(d) <=> c.result.value.build # None

\* a block with an image and a build directive was read and accepted
C25_Witness ==
    \E i \in CallsOf("ServiceDefinition") :
        /\ parse_calls[i].data = [image |-> "img:tag", build |-> [context |-> "dir"]]
        /\ Accepted(parse_calls[i])
        /\ parse_calls[i].result.value.build.context = "dir"

\* ------------------------------------------------------ the activation list
\* the fired transitions whose target is a step that may be activated: it has
\* no status, or the status aborted
EligibleFired ==
    {i \in 1..Len(transitions) :
        /\ FiresAt(i)
        /\ transitions[i][3] \in {"s1", "s2"}
        /\ ~HasStatus(transitions[i][3]) \/ IsAborted(transitions[i][3])}
NthEligibleFired(p) ==
    CHOOSE i \in EligibleFired : Cardinality({j \in EligibleFired : j <= i}) = p

\* C26: get_next_steps does not de-duplicate: when the call returns and no
\* terminal transition fired, the activation list is made of the targets of
\* the fired transitions with an eligible target, one entry per transition and
\* in declaration order, so a step targeted by k of them is listed k times.
C26_NoDeduplication ==
    (Called /\ g_result.raised = "none" /\ TerminalsFired = {}) =>
        /\ ~g_result.finished
        /\ Len(g_result.to_activate) = Cardinality(EligibleFired)
        /\ \A p \in DOMAIN g_result.to_activate :
              g_result.to_activate[p] = transitions[NthEligibleFired(p)][3]
        /\ \A s \in {"s1", "s2"} :
              (~HasStatus(s) \/ IsAborted(s)) =>
                  Occurrences(g_result.to_activate, s) = Cardinality(FiredTargeting(s))

\* s2 is the target of two fired transitions and is listed twice
C26_Witness ==
    /\ Called
    /\ transitions = << <<"START", "success", "s2">>, <<"s1", "success", "s2">> >>
    /\ g_status = [k \in {"START", "s1"} |-> "success"]
    /\ g_result.raised = "none"
    /\ g_result.to_activate = <<"s2", "s2">>

\* --------------------------------------------------------- the orchestrator
Orchestrating == ct_state = "orchestrating"
\* the last call returned unfinished with nothing to activate
Stuck ==
    /\ Orchestrating
    /\ g_result.raised = "none"
    /\ ~g_result.finished
    /\ g_result.to_activate = <<>>
Finished == Orchestrating /\ g_result.raised = "none" /\ g_result.finished
\* a step has a status that none of its outgoing transitions matches
DeadEnd ==
    \E s \in DOMAIN o_status \cap {"s1", "s2"} :
        \A i \in 1..Len(transitions) :
            ~(transitions[i][1] = s /\ transitions[i][2] = o_status[s])

RunLeft == runInvoked /\ spc \in {"except", "finally_yaml", "finally_files", "done"}
\* run raised an unclassified fault, or returned having declared failure or
\* without an output mapping
UnclassifiedRunFailure ==
    \/ run_outcome.outcome = "Other"
    \/ /\ run_outcome.outcome = "return"
       /\ failure_declared \/ ~run_outcome.has_output

\* C28: when the run logic raises a fault that is not a classified failure, or
\* returns without an output mapping and without declaring failure, or
\* declares failure, wrap_solution classifies InvalidSubmission, writes the
\* submission-failure marker, and the evaluator's record is FAILED; a
\* classified failure raised by the run logic keeps its class.
C28_RunningPhaseClassification ==
    RunLeft =>
        /\ UnclassifiedRunFailure =>
              /\ sexc.cls = "InvalidSubmission"
              /\ SolutionFinalizing =>
                    DOMAIN solution_output_dict = {SPECIAL_INVALID_SUBMISSION}
              /\ SolutionWroteYaml => DOMAIN solYaml = {SPECIAL_INVALID_SUBMISSION}
              /\ EvaluatorEnded => Record.status = "FAILED"
        /\ run_outcome.outcome \in ClassifiedFailures =>
              /\ sexc.cls = run_outcome.outcome
              /\ SolutionWroteYaml =>
                    DOMAIN solYaml =
                        {CASE run_outcome.outcome = "InvalidSubmission" -> "invalid-submission"
                           [] run_outcome.outcome = "InvalidEvaluator" -> "invalid-evaluator"
                           [] OTHER -> "invalid-environment"}

\* run returned without an output mapping and without declaring failure; the
\* evaluator read the marker and recorded FAILED
C28_Witness ==
    /\ EvaluatorEnded
    /\ spc = "done"
    /\ run_outcome = [outcome |-> "return", has_output |-> FALSE]
    /\ ~failure_declared
    /\ sexc.cls = "InvalidSubmission"
    /\ DOMAIN solYaml = {SPECIAL_INVALID_SUBMISSION}
    /\ e_out = solYaml
    /\ Record.status = "FAILED"

\* ------------------------------------------------- the parameters file last
\* C29: the parameters file is what after_prepare writes last: whenever the
\* file exists, and so whenever the solution side has observed it, every
\* challenge file registered during preparation is in the challenge-description
\* area; and the file exists only if the parameters were set, holding them.
C29_ParametersFileLast ==
    /\ descYaml # Absent =>
          /\ parameters # None
          /\ descYaml = parameters
          /\ challenge_files \subseteq descFiles
    /\ s_pollSaw =>
          /\ descYaml # Absent
          /\ challenge_files \subseteq descFiles
    /\ s_parameters # None => s_parameters = parameters

\* preparation succeeded with a challenge file registered, and the solution
\* has observed the parameters file
C29_Witness ==
    /\ s_pollSaw
    /\ eexc.cls = "none"
    /\ "prepare" \in e_phases
    /\ challenge_files = {"map.yaml"}
    /\ descFiles = {"map.yaml"}
    /\ SPECIAL_ABORT \notin DOMAIN descYaml

\* ------------------------------------------------------ scores of a record
\* C30: a record written by wrap_evaluator has status SUCCESS exactly when its
\* score mapping is not empty: scoring logic that returns with no score
\* recorded ends in InvalidEvaluator and an ERROR record, and a FAILED or ERROR
\* record has no scores even when scores were recorded before the failure.
C30_SuccessIffScores ==
    /\ \A i \in DOMAIN results :
          /\ results[i].status \in {"SUCCESS", "FAILED", "ERROR"}
          /\ results[i].status = "SUCCESS" <=> results[i].scores # EmptyDict
          /\ results[i].status = "SUCCESS" => results[i].scores = scores
    /\ (EvaluatorEnded /\ "score" \in e_phases /\ scores = EmptyDict) =>
          /\ eexc.cls = "InvalidEvaluator"
          /\ eexc.origin = "after_score"
          /\ Record.status = "ERROR"

\* the scoring logic recorded a score and then failed: the record has none
C30_Witness ==
    /\ EvaluatorEnded
    /\ scoreInvoked
    /\ eexc.origin = "score"
    /\ scores # EmptyDict
    /\ Record.status = "ERROR"
    /\ Record.scores = EmptyDict

\* ------------------------------------------------- what go_ reports
\* C31: when the configuration is valid and the backend ran to completion and
\* produced a ChallengeResults record, that record is what go_ reports: from
\* the moment the record has been read it stays the outcome of the job, and
\* every report attempt carries its status and its scores; no later step
\* (logs, upload, teardown) replaces it by a synthesized ERROR.
C31_ReportsBackendRecord ==
    [][ (valid_config = "valid" /\ cr \in BackendResults) =>
          /\ cr' = cr
          /\ \A i \in DOMAIN attempts' :
                /\ attempts'[i].result = cr.status
                /\ attempts'[i].stats.scores = cr.scores ]_vars

\* ------------------------------------------------- the resolved configuration
\* C32: for every EvaluationParameters and submission image, get_config
\* returns a configuration with the same services in which, for every service,
\* the image is the submission image if it was the sentinel and is otherwise
\* unchanged, there is no build and no image_digest key, the environment
\* holds the challenge name and the step name, the volumes are exactly the
\* five session directories, and the service is attached to the one shared
\* network 'evaluation', which is the only network of the configuration.
C32_ResolvedConfiguration ==
    \A i \in DOMAIN config_calls :
        LET c == config_calls[i]
            config == c.result.value
        IN  /\ c.result.raised = "none"
            /\ DOMAIN config.services = DOMAIN c.params.services
            /\ DOMAIN config.networks = {"evaluation"}
            /\ \A k \in DOMAIN config.services :
                 LET service == config.services[k]
                     before == c.params.services[k]
                 IN  /\ service.image = IF before.image = SUBMISSION_CONTAINER_TAG
                                        THEN c.solution_container ELSE before.image
                     /\ "build" \notin DOMAIN service
                     /\ "image_digest" \notin DOMAIN service
                     /\ ENV_CHALLENGE_NAME \in DOMAIN service.environment
                     /\ service.environment[ENV_CHALLENGE_NAME] = c.challenge_name
                     /\ ENV_CHALLENGE_STEP_NAME \in DOMAIN service.environment
                     /\ service.environment[ENV_CHALLENGE_STEP_NAME] = c.challenge_step_name
                     /\ DOMAIN before.environment \subseteq DOMAIN service.environment
                     /\ Len(service.volumes) = 5
                     /\ \A j \in 1..5 :
                          service.volumes[j] = <<"./", SessionDirs[j], ":", "/", SessionDirs[j]>>
                     /\ DOMAIN service.networks = {"evaluation"}

\* a configuration with the submission's service (sentinel image, a build
\* directive, a digest, an environment that already names the challenge) next
\* to a service with an image of its own
C32_Witness ==
    \E i \in DOMAIN config_calls :
        LET c == config_calls[i] IN
        /\ DOMAIN c.params.services = {"evaluator", "solution"}
        /\ c.params.services["solution"].image = SUBMISSION_CONTAINER_TAG
        /\ c.params.services["solution"].build # None
        /\ c.params.services["solution"].image_digest # None
        /\ c.params.services["solution"].environment = Dict1(ENV_CHALLENGE_NAME, "other")
        /\ c.params.services["evaluator"].image = "img:tag"
        /\ c.result.raised = "none"
        /\ c.result.value.services["solution"].image = "sub@sha256:c"
        /\ c.result.value.services["evaluator"].image = "img:tag"

\* ------------------------------------------------- concurrent mkdirs
\* C33: d8n_mkdirs_thread_safe is safe under concurrent use: when several
\* threads call it for the same or overlapping paths, in every interleaving of
\* their existence checks and directory creations no call raises, and when a
\* call returns the requested directory exists.
C33_MkdirsThreadSafe ==
    \A t \in Threads :
        /\ mk_done[t].state # "raised"
        /\ (mk_done[t].state = "returned" /\ mk_done[t].dst # <<>>) =>
              /\ mk_done[t].exists
              /\ mk_done[t].dst \in fs
        /\ Consistent(fs)

\* two calls for overlapping paths raced: both found a/b missing, and the one
\* that lost the race to create it has returned all the same
C33_Witness ==
    /\ mk_done[1].state = "returned" /\ mk_done[1].dst = <<"a", "b", "c">>
    /\ mk_done[2].state = "running" /\ mk_done[2].dst = <<"a", "b">>
    /\ mk_stack[2] = <<Frame(<<"a", "b">>, "mkdir")>>
    /\ <<"a", "b">> \in fs

\* ------------------------------------------------- images with a hash
\* C34: update_image does not update a service whose image name already
\* carries a qualified hash (contains '@'): after the call the image reference
\* of the service is the same as before.
C34_QualifiedImageKept ==
    \A i \in DOMAIN image_calls :
        LET c == image_calls[i] IN
        Contains(c.self.image, "@") => c.result.self.image = c.self.image

\* ------------------------------------------------- termination of the handshake
HandshakeEnded ==
    /\ epc = "done" /\ Len(results) = 1
    /\ spc = "done" /\ solYaml # Absent

\* C35: the handshake cannot deadlock: with the user logic terminating and
\* time advancing, in every interleaving both processes end and stay ended,
\* the evaluator with its ChallengeResults record written and the solution
\* with the solution-output file written; and neither side goes on waiting
\* for the other after a poll made later than its timeout.
C35_HandshakeTerminates ==
    /\ <>[]HandshakeEnded
    /\ [][(epc = "wait_timeout" /\ epc' = "wait_sleep") =>
              e_elapsed <= TIMEOUT_SOLUTION]_vars
    /\ [][(spc = "wait_timeout" /\ spc' = "wait_sleep") =>
              s_elapsed <= TIMEOUT_PREPARATION]_vars

\* prepare returned without parameters, so the parameters file was never
\* written: the solution gave up at its timeout and both sides have ended
C35_Witness ==
    /\ HandshakeEnded
    /\ eexc.origin = "after_prepare"
    /\ descYaml = Absent
    /\ sexc.origin = "wait"
    /\ s_elapsed > TIMEOUT_PREPARATION

\* ------------------------------------------------- no job is abandoned
\* C36: once go_ has obtained a job id, every path through it, whatever raises
\* during session setup, download, configuration, execution, upload or
\* teardown, reaches the report loop and makes at least one report attempt
\* for the job, with a status among SUCCESS, FAILED and ERROR; go_ never ends
\* for an acquired job without a report attempt.
C36_AcquiredJobIsReported ==
    /\ JobAcquired ~> (attempts # <<>>)
    /\ [](attempts # <<>> =>
            /\ JobAcquired
            /\ attempts[1].result \in {"SUCCESS", "FAILED", "ERROR"})
    /\ []((JobAcquired /\ attempts = <<>>) => ~GoEnded)

\* the teardown raised after everything else had worked, and the job has been
\* reported all the same
C36_Witness ==
    /\ JobAcquired
    /\ Len(backend) > 0 /\ backend[Len(backend)] = "down"
    /\ wd = "exists"
    /\ cr = UncaughtError
    /\ Len(attempts) = 1
    /\ attempts[1].ok
    /\ attempts[1].result = "ERROR"

\* ------------------------------------------------- scoring and the markers
FailureMarkers ==
    {SPECIAL_INVALID_ENVIRONMENT, SPECIAL_INVALID_EVALUATOR, SPECIAL_INVALID_SUBMISSION}
MarkerFree(out) == out # None /\ DOMAIN out \cap FailureMarkers = {}

\* C37: wrap_evaluator invokes the scoring logic only when the solution-output
\* mapping it read holds none of the three failure-marker keys; whenever the
\* solution side has a failure to classify, the scoring logic is never invoked
\* and no SUCCESS record is written.
C37_ScoreOnlyWithoutMarkers ==
    /\ (epc = "score" \/ scoreInvoked) => MarkerFree(e_out)
    /\ sexc.cls # "none" =>
          /\ epc # "score"
          /\ ~scoreInvoked
          /\ \A i \in DOMAIN results : results[i].status # "SUCCESS"

\* the solution found its environment invalid; the evaluator read the marker
\* and ended without scoring
C37_Witness ==
    /\ EvaluatorEnded
    /\ sexc.cls = "InvalidEnvironment"
    /\ e_out # None
    /\ SPECIAL_INVALID_ENVIRONMENT \in DOMAIN e_out
    /\ ~scoreInvoked
    /\ Record.status = "ERROR"

C39_FailedDownloadIsError ==
    (JobAcquired /\ d_pc = "raised") =>
        /\ d_exc.cls \in {"CouldNotDownloadAll", "ClientError", "ValueError"}
        /\ backend = <<>>
        /\ valid_config = "unset"
        /\ u_pc = "idle"
        /\ r_pc \in {"download", "except", "stats", "report", "go_ended", "exit"}
        /\ r_pc \in {"stats", "report", "go_ended", "exit"} =>
              /\ cr.status = "ERROR"
              /\ r_uploaded = <<>>
        /\ \A i \in DOMAIN attempts :
              /\ attempts[i].result = "ERROR"
              /\ attempts[i].uploaded = <<>>
        /\ GoEnded => attempts # <<>>

\* the artefact fetched from storage had the wrong size: the job was reported
\* as ERROR without the backend having been asked anything
C39_Witness ==
    /\ JobAcquired
    /\ d_pc = "raised"
    /\ d_exc.cls = "ValueError"
    /\ r_pc = "exit"
    /\ backend = <<>>
    /\ Len(attempts) = 1
    /\ attempts[1].result = "ERROR"
    /\ attempts[1].uploaded = <<>>

====
